---------------------------- MODULE Spec2Model ----------------------------
(***************************************************************************)
(* A model of the question answerability evaluator of glyco-map            *)
(* (src/cgm_questions/answerability.py) and of its event metrics           *)
(* calculators (src/cgm_metrics/event_metrics.py), and of its event signal *)
(* evaluator (src/cgm_signals/event_signals.py).                           *)
(*                                                                         *)
(* QuestionAnswerabilityEvaluator.evaluate is a pure function of a         *)
(* question document, an events document and a metrics document.  The      *)
(* state machine draws the three documents and the constructor arguments   *)
(* from bounded sets (Init) and applies evaluate to them (Evaluate).       *)
(*                                                                         *)
(* Encoding of the Python values:                                          *)
(*   - a JSON scalar or list is a record [t, s, n, l] (t is its type);     *)
(*   - an absent or empty string is "", which Python treats as falsy too;  *)
(*   - a timestamp string is [kind, min]: kind says what                   *)
(*     datetime.fromisoformat makes of it ("aware", "naive" offset-less,   *)
(*     "bad" unparsable), min the minutes since midnight of the first day  *)
(*     (all aware timestamps carry the same UTC offset);                   *)
(*   - a ratio is an integer number of percent (0.7 is 70);                *)
(*   - an event id is an integer, sorted() is ascending order;             *)
(*   - an exception leaving a method is the field raised = TRUE of what    *)
(*     the method's operator returns.                                      *)
(***************************************************************************)
EXTENDS Integers, Sequences, FiniteSets, TLC

VARIABLES
    evaluator,      \* the constructor arguments of the evaluator object
    question,       \* the question document
    events_data,    \* the events document
    metrics_data,   \* the metrics document
    result,         \* what evaluate returned (or that it raised)
    previous,       \* what evaluate returned before an event was added
    cgm_data,       \* the CGM time series given to the metrics calculators
    cgm_event,      \* the event given to the metrics calculators
    windows,        \* the window arguments of the metrics calculators
    computed,       \* what a metrics calculator returned (or that it raised)
    event_metrics,  \* the list calculate_all_metrics returned
    cgm_events,     \* the events given to calculate_event_metrics
    metrics_collection, \* what calculate_event_metrics returned
    signal_evaluator,   \* the constructor arguments of EventSignalEvaluator
    signal_events,  \* the events given to EventSignalEvaluator.evaluate
    signal_metrics, \* the metrics given to EventSignalEvaluator.evaluate
    events_sorted,  \* its local events_sorted
    history,        \* its local history
    signals,        \* its local signals
    pc              \* "ready" before the call, "done" after it ("added"
                    \* after the call on one more event, "computed"
                    \* after the call of a metrics calculator,
                    \* "all_computed" after calculate_all_metrics,
                    \* "collected" after calculate_event_metrics,
                    \* "looping" in the loop of EventSignalEvaluator's
                    \* evaluate, "returned" after it)

\* The variables of the answerability evaluator and of the metrics engine.
evaluator_vars ==
    <<evaluator, question, events_data, metrics_data, result, previous>>

engine_vars ==
    <<cgm_data, cgm_event, windows, computed,
      event_metrics, cgm_events, metrics_collection>>

signal_vars ==
    <<signal_evaluator, signal_events, signal_metrics,
      events_sorted, history, signals>>

vars == <<evaluator_vars, engine_vars, signal_vars, pc>>

----------------------------------------------------------------------------
(* Python values *)

PyNone == [t |-> "none", s |-> "", n |-> 0, l |-> <<>>]
Str(x) == [t |-> "str", s |-> x, n |-> 0, l |-> <<>>]
Num(x) == [t |-> "num", s |-> "", n |-> x, l |-> <<>>]
List(xs) == [t |-> "list", s |-> "", n |-> 0, l |-> xs]

\* The outcome of a method returning a bool: the bool, or an exception.
Ok(b) == [raised |-> FALSE, v |-> b]
Raise == [raised |-> TRUE, v |-> FALSE]

\* The strings of the model in Python's (code point) order.
StrOrder ==
    <<"02:00", "08:00", "09:00", "22:00", "Food_X ", "food_x", "food_y",
      "meal", "note">>

StrRank(x) == CHOOSE i \in 1..Len(StrOrder) : StrOrder[i] = x

\* str.strip().lower()
StripLower(x) == IF x = "Food_X " THEN "food_x" ELSE x

\* sorted(set(ids)) for a set of integers
RECURSIVE SortedSeq(_)
SortedSeq(S) ==
    IF S = {} THEN <<>>
    ELSE LET m == CHOOSE x \in S : \A y \in S : x <= y
         IN <<m>> \o SortedSeq(S \ {m})

Range(seq) == {seq[i] : i \in 1..Len(seq)}

----------------------------------------------------------------------------
(* Timestamps *)

Aware(m) == [kind |-> "aware", min |-> m]
Naive(m) == [kind |-> "naive", min |-> m]
BadTime == [kind |-> "bad", min |-> 0]

\* _parse_timestamp raises ValueError on a string that is no ISO timestamp.
_parse_timestamp_raises(value) == value.kind = "bad"

\* Ordering an offset-aware against an offset-naive datetime is a TypeError.
TimeOrderRaises(a, b) == a.kind # b.kind

\* _parse_event_times: (start, end), the end defaulting to
\* start + default_event_duration_minutes.
_parse_event_times_raises(event) ==
    \/ _parse_timestamp_raises(event.start_time)
    \/ event.has_end_time /\ _parse_timestamp_raises(event.end_time)

EventStart(event) == event.start_time

\* The mutant of EventEnd: a missing end_time defaults to the start.
EventEndAtStart(ev, event) ==
    IF event.has_end_time THEN event.end_time ELSE event.start_time

EventEnd(ev, event) ==
    IF event.has_end_time THEN event.end_time
    ELSE [kind |-> event.start_time.kind,
          min |-> event.start_time.min + ev.default_event_duration_minutes]


----------------------------------------------------------------------------
(* Selector matcher *)

\* The "HH:MM" strings of the model, as minutes of the day.
_time_value_table(x) ==
    CASE x = "02:00" -> 2 * 60 + 0
      [] x = "08:00" -> 8 * 60 + 0
      [] x = "09:00" -> 9 * 60 + 0
      [] x = "22:00" -> 22 * 60 + 0
      [] OTHER -> -1

\* _time_value: an "HH:MM" string becomes minutes of the day; any other
\* value is returned as it is.
_time_value(value) ==
    IF value.t = "str" /\ _time_value_table(value.s) >= 0
    THEN Num(_time_value_table(value.s))
    ELSE value

\* _normalize_time_value
_normalize_time_value(value) ==
    IF value.t = "list"
    THEN List([i \in 1..Len(value.l) |-> _time_value(value.l[i])])
    ELSE _time_value(value)

\* _equals on a candidate that is no list
EqualsScalar(candidate, value) ==
    IF candidate.t = "str" /\ value.t = "str"
    THEN StripLower(candidate.s) = StripLower(value.s)
    ELSE candidate = value

\* _equals
_equals(candidate, value) ==
    IF candidate.t = "list"
    THEN \E i \in 1..Len(candidate.l) : EqualsScalar(candidate.l[i], value)
    ELSE EqualsScalar(candidate, value)

\* Python's a < b: numbers with numbers, strings with strings; any other
\* pairing of the model's values is a TypeError.
PyLess(a, b) ==
    CASE a.t = "num" /\ b.t = "num" -> Ok(a.n < b.n)
      [] a.t = "str" /\ b.t = "str" -> Ok(StrRank(a.s) < StrRank(b.s))
      [] OTHER -> Raise

\* Python's a <= b
PyLessEq(a, b) ==
    CASE a.t = "num" /\ b.t = "num" -> Ok(a.n <= b.n)
      [] a.t = "str" /\ b.t = "str" -> Ok(StrRank(a.s) <= StrRank(b.s))
      [] OTHER -> Raise

\* _between without the wraparound: a lower bound above the upper one
\* matches nothing.
BetweenNoWrap(candidate, lower, upper) ==
    IF lower.t = "none" \/ upper.t = "none" THEN FALSE
    ELSE IF candidate.t = "num" /\ lower.t = "num" /\ upper.t = "num"
    THEN lower.n <= candidate.n /\ candidate.n <= upper.n
    ELSE FALSE

\* _between
_between(candidate, lower, upper) ==
    IF lower.t = "none" \/ upper.t = "none" THEN FALSE
    ELSE IF candidate.t = "num" /\ lower.t = "num" /\ upper.t = "num"
    THEN IF lower.n <= upper.n
         THEN lower.n <= candidate.n /\ candidate.n <= upper.n
         ELSE candidate.n >= lower.n \/ candidate.n <= upper.n
    ELSE FALSE

NoOperator == "<none>"

\* _compare(operator, candidate, value)
_compare(operator, candidate, value) ==
    CASE operator = NoOperator -> Ok(FALSE)
      [] operator = "=" -> Ok(_equals(candidate, value))
      [] operator = "<" -> PyLess(candidate, value)
      [] operator = ">" -> PyLess(value, candidate)
      [] operator = "<=" -> PyLessEq(candidate, value)
      [] operator = ">=" -> PyLessEq(value, candidate)
      [] operator = "between" ->
            IF value.t # "list" \/ Len(value.l) # 2 THEN Ok(FALSE)
            ELSE Ok(_between(_time_value(candidate),
                             _time_value(value.l[1]),
                             _time_value(value.l[2])))
      [] operator = "in" ->
            IF value.t # "list" THEN Ok(FALSE)
            ELSE IF candidate.t = "list"
            THEN Ok(\E i \in 1..Len(candidate.l) : \E j \in 1..Len(value.l) :
                        EqualsScalar(candidate.l[i], value.l[j]))
            ELSE Ok(\E j \in 1..Len(value.l) : _equals(candidate, value.l[j]))
      [] operator = "exists" -> Ok(candidate.t # "none")
      [] OTHER -> Ok(FALSE)

\* _resolve_component: (value, unit) of a named component of the event.
\* The model's component names are label, food_name, event_type and the
\* names of exposure components.
ExposureComponent(event, component) ==
    LET hits == SelectSeq(event.exposure_components,
                          LAMBDA c : c.name = component)
    IN IF hits = <<>> THEN [value |-> PyNone, unit |-> ""]
       ELSE [value |-> hits[1].value, unit |-> hits[1].unit]

_resolve_component(event, component) ==
    CASE component \in {"label", "food_name"} ->
            [value |-> event.label, unit |-> ""]
      [] component = "event_type" ->
            [value |-> Str(event.event_type), unit |-> ""]
      [] OTHER -> ExposureComponent(event, component)

\* _match_selector
_match_selector(event, selector) ==
    LET resolved == _resolve_component(event, selector.component)
    IN CASE selector.component = "" -> Ok(FALSE)
         [] selector.operator = "exists" -> Ok(resolved.value.t # "none")
         [] resolved.value.t = "none" -> Ok(FALSE)
         [] selector.unit # "" /\ resolved.unit # ""
            /\ selector.unit # resolved.unit -> Ok(FALSE)
         [] OTHER -> _compare(selector.operator, resolved.value, selector.value)

\* _matches_event_definition
_matches_event_definition(event, definition) ==
    IF event.event_type # definition.event_type THEN Ok(FALSE)
    ELSE _match_selector(event, definition.selector)

\* _match_condition (the names context_tag, context and context_tags are
\* not among the model's condition names)
_match_condition(event, condition) ==
    IF condition.name = "time_of_day"
    THEN IF _parse_event_times_raises(event) THEN Raise
         ELSE _compare(condition.operator,
                       Num(EventStart(event).min % (24 * 60)),
                       _normalize_time_value(condition.value))
    ELSE LET resolved == _resolve_component(event, condition.name)
         IN CASE resolved.value.t = "none" -> Ok(FALSE)
              [] condition.unit # "" /\ resolved.unit # ""
                 /\ condition.unit # resolved.unit -> Ok(FALSE)
              [] OTHER -> _compare(condition.operator, resolved.value,
                                   condition.value)

\* _matches_conditions: the conditions are tried in order, up to the first
\* that fails or raises.
RECURSIVE _matches_conditions(_, _)
_matches_conditions(event, conditions) ==
    IF conditions = <<>> THEN Ok(TRUE)
    ELSE LET first == _match_condition(event, Head(conditions))
         IN IF first.raised THEN Raise
            ELSE IF ~first.v THEN Ok(FALSE)
            ELSE _matches_conditions(event, Tail(conditions))

\* The test of the comprehensions of evaluate:
\* _matches_event_definition(...) and _matches_conditions(...)
GroupMatch(event, definition, conditions) ==
    LET byDefinition == _matches_event_definition(event, definition)
    IN IF byDefinition.raised THEN Raise
       ELSE IF ~byDefinition.v THEN Ok(FALSE)
       ELSE _matches_conditions(event, conditions)

----------------------------------------------------------------------------
(* Time span *)

\* _parse_time_span raises when the span is given and a bound does not parse.
_parse_time_span_raises(q) ==
    q.has_time_span /\ (\/ _parse_timestamp_raises(q.time_span.start_time)
                        \/ _parse_timestamp_raises(q.time_span.end_time))

\* _event_in_span raises when the span is given and the event's times do not
\* parse, or when span_start <= event_start <= span_end orders an aware
\* against a naive datetime.
_event_in_span_raises(event, q) ==
    /\ q.has_time_span
    /\ \/ _parse_event_times_raises(event)
       \/ TimeOrderRaises(q.time_span.start_time, EventStart(event))
       \/ /\ q.time_span.start_time.min <= EventStart(event).min
          /\ TimeOrderRaises(EventStart(event), q.time_span.end_time)

\* _event_in_span with the end of the span left out.
EventInSpanOpenEnd(event, q) ==
    IF ~q.has_time_span THEN TRUE
    ELSE /\ q.time_span.start_time.min <= EventStart(event).min
         /\ EventStart(event).min < q.time_span.end_time.min

\* _event_in_span
_event_in_span(event, q) ==
    IF ~q.has_time_span THEN TRUE
    ELSE /\ q.time_span.start_time.min <= EventStart(event).min
         /\ EventStart(event).min <= q.time_span.end_time.min

----------------------------------------------------------------------------
(* Confound detector *)

\* The mutant of Intersects: the isolation is left out of the window's start.
IntersectsLateStart(ev, event, other, isolation_minutes) ==
    /\ EventStart(other).min <= EventEnd(ev, event).min + isolation_minutes
    /\ EventEnd(ev, other).min >= EventStart(event).min

\* The test of _find_confounded_events on an event and another one:
\* other_start <= window_end and other_end >= window_start, where the window
\* is the event's [start - isolation, end + isolation].
Intersects(ev, event, other, isolation_minutes) ==
    LET window_start == EventStart(event).min - isolation_minutes
        window_end == EventEnd(ev, event).min + isolation_minutes
    IN /\ EventStart(other).min <= window_end
       /\ EventEnd(ev, other).min >= window_start

\* That test raises when it orders an aware against a naive datetime; the
\* second comparison is made only when the first holds.
IntersectsRaises(ev, event, other, isolation_minutes) ==
    \/ TimeOrderRaises(EventStart(other), EventEnd(ev, event))
    \/ /\ EventStart(other).min
            <= EventEnd(ev, event).min + isolation_minutes
       /\ TimeOrderRaises(EventEnd(ev, other), EventStart(event))

\* The inner loop of _find_confounded_events for one event: the other events
\* are tried in order up to the first that passes the test (break).
RECURSIVE ConfoundScan(_, _, _, _)
ConfoundScan(ev, event, others, isolation_minutes) ==
    IF others = <<>> THEN Ok(FALSE)
    ELSE IF Head(others).event_id = event.event_id
    THEN ConfoundScan(ev, event, Tail(others), isolation_minutes)
    ELSE IF IntersectsRaises(ev, event, Head(others), isolation_minutes)
    THEN Raise
    ELSE IF Intersects(ev, event, Head(others), isolation_minutes)
    THEN Ok(TRUE)
    ELSE ConfoundScan(ev, event, Tail(others), isolation_minutes)

_find_confounded_events_raises(ev, events, isolation_minutes) ==
    \/ \E i \in 1..Len(events) : _parse_event_times_raises(events[i])
    \/ \E i \in 1..Len(events) :
            ConfoundScan(ev, events[i], events, isolation_minutes).raised

\* _find_confounded_events: the sorted ids of the events that another event
\* confounds.
_find_confounded_events(ev, events, isolation_minutes) ==
    SortedSeq({events[i].event_id : i \in
        {j \in 1..Len(events) :
            ConfoundScan(ev, events[j], events, isolation_minutes).v}})

----------------------------------------------------------------------------
(* Windows and metrics *)

WindowSpec(rel, lo, hi) ==
    [relative_to |-> rel, start_offset_minutes |-> lo, end_offset_minutes |-> hi]

NoSpec == WindowSpec("", 0, 0)

\* A window is absent (None), one WindowSpec, or a pair of WindowSpecs under
\* two keys (the keys field names them).
NoWindow == [kind |-> "none", keys |-> "", a |-> NoSpec, b |-> NoSpec]
SingleWindow(w) == [kind |-> "single", keys |-> "", a |-> w, b |-> NoSpec]
PairWindow(keys, w1, w2) == [kind |-> "pair", keys |-> keys, a |-> w1, b |-> w2]

\* _metric_window_matches: only a metric window that has the key relative_to
\* is compared, field by field; question_window.get(...) of a pair is None.
_metric_window_matches(metric_window, question_window) ==
    IF metric_window.kind = "none" THEN FALSE
    ELSE IF metric_window.kind = "single"
    THEN /\ question_window.kind = "single"
         /\ metric_window.a.relative_to = question_window.a.relative_to
         /\ metric_window.a.start_offset_minutes
                = question_window.a.start_offset_minutes
         /\ metric_window.a.end_offset_minutes
                = question_window.a.end_offset_minutes
    ELSE FALSE

\* _select_metric: the positions of the candidates; 0 stands for None.
_select_metric(metrics, question_window) ==
    IF question_window.kind = "none" THEN 1
    ELSE LET hits == {i \in 1..Len(metrics) :
                        _metric_window_matches(metrics[i].window, question_window)}
         IN IF hits = {} THEN 0
            ELSE CHOOSE i \in hits : \A j \in hits : i <= j

\* _metric_coverage, in percent
_metric_coverage(metric) ==
    IF metric.has_coverage_ratio THEN metric.coverage_ratio
    ELSE IF ~metric.has_coverage_percentage THEN 100
    ELSE metric.coverage_percentage

\* metrics_index.get(event_id, []) filtered by the metric name
MetricsOf(metrics, event_id, metric_name) ==
    SelectSeq(metrics, LAMBDA m : m.event_id = event_id
                                  /\ m.metric_name = metric_name)

\* The class _evaluate_group gives a matched event.
EventClass(ev, event_id, metrics, q, confounded_ids) ==
    LET named == MetricsOf(metrics, event_id, q.outcome.metric_name)
        pick == _select_metric(named, q.outcome.window)
    IN CASE event_id \in Range(confounded_ids) -> "confounded"
         [] named = <<>> -> "missing_metric"
         [] pick = 0 -> "window_mismatch"
         [] _metric_coverage(named[pick]) < ev.min_metric_coverage
                -> "low_quality_metric"
         [] OTHER -> "usable"

\* _evaluate_group
_evaluate_group(ev, events, metrics, q, confounded_ids) ==
    LET matched_ids == [i \in 1..Len(events) |-> events[i].event_id]
        OfClass(c) == SelectSeq(matched_ids, LAMBDA id :
                        EventClass(ev, id, metrics, q, confounded_ids) = c)
    IN [metric_name |-> q.outcome.metric_name,
        matched_event_ids |-> matched_ids,
        usable_event_ids |-> OfClass("usable"),
        confounded_event_ids |-> OfClass("confounded"),
        missing_metric_event_ids |-> OfClass("missing_metric"),
        low_quality_metric_event_ids |-> OfClass("low_quality_metric"),
        window_mismatch_event_ids |-> OfClass("window_mismatch")]

----------------------------------------------------------------------------
(* Reasons and data requirements *)

\* _reason: the keyword arguments a call does not give are absent from the
\* dict; here affected_event_ids is then <<>> and observed, required are -1
\* (the code gives affected_event_ids only when the list is not empty).
\* The detail text is kept as the group it names ("" when it names none).
_reason(code, group, blocking, affected_event_ids, observed, required) ==
    [code |-> code, group |-> group, blocking |-> blocking,
     affected_event_ids |-> affected_event_ids,
     observed |-> observed, required |-> required]

\* One reason of _group_reasons that is appended only for a non-empty list.
ListReason(code, group, blocking, ids) ==
    IF ids = <<>> THEN <<>>
    ELSE <<_reason(code, group, blocking, ids, -1, -1)>>

\* The mutant of GroupBlocking: blocking also when the usable events are
\* exactly min_events_per_group.
GroupBlockingAtMinimum(ev, stats) ==
    Len(stats.usable_event_ids) <= ev.min_events_per_group

\* The blocking flag _group_reasons gives the confounded, window mismatch,
\* missing metric and low coverage reasons of a group.
GroupBlocking(ev, stats) ==
    Len(stats.usable_event_ids) < ev.min_events_per_group

\* A mutant of InsufficientRepeats: the comparison is inverted.
InsufficientInverted(ev, stats) ==
    Len(stats.usable_event_ids) >= ev.min_events_per_group

\* The mutant of InsufficientRepeats: the matched events are counted, not the
\* usable ones.
InsufficientMatched(ev, stats) ==
    Len(stats.matched_event_ids) < ev.min_events_per_group

\* The test of _group_reasons for the insufficient_repeats reason.
InsufficientRepeats(ev, stats) ==
    Len(stats.usable_event_ids) < ev.min_events_per_group

\* _group_reasons
_group_reasons(ev, group_name, stats) ==
    IF stats.matched_event_ids = <<>>
    THEN <<_reason("no_matching_" \o group_name \o "_events", group_name,
                   TRUE, <<>>, -1, -1)>>
    ELSE ListReason("confounded_context", group_name,
                    GroupBlocking(ev, stats), stats.confounded_event_ids)
         \o ListReason("metric_window_mismatch", group_name,
                       GroupBlocking(ev, stats),
                       stats.window_mismatch_event_ids)
         \o ListReason(IF stats.metric_name = "baseline_glucose"
                       THEN "missing_baseline" ELSE "missing_metric",
                       group_name, GroupBlocking(ev, stats),
                       stats.missing_metric_event_ids)
         \o ListReason("low_metric_coverage", group_name,
                       GroupBlocking(ev, stats),
                       stats.low_quality_metric_event_ids)
         \o (IF InsufficientRepeats(ev, stats)
             THEN <<_reason("insufficient_repeats_" \o group_name, group_name,
                            TRUE, <<>>, Len(stats.usable_event_ids),
                            ev.min_events_per_group)>>
             ELSE <<>>)

\* A data requirement: needed_count is -1 and event_ids is <<>> when the dict
\* has no such key.
Requirement(type, group, needed_count, event_ids) ==
    [type |-> type, group |-> group, needed_count |-> needed_count,
     event_ids |-> event_ids]

\* A requirement that is made for an empty list too.
ListRequirementAlways(type, group, ids) ==
    <<Requirement(type, group, -1, ids)>>

ListRequirement(type, group, ids) ==
    IF ids = <<>> THEN <<>> ELSE <<Requirement(type, group, -1, ids)>>

\* _group_data_requirements
_group_data_requirements(ev, group_name, stats) ==
    LET short == ev.min_events_per_group - Len(stats.usable_event_ids)
        missing_count == IF short > 0 THEN short ELSE 0
    IN IF stats.matched_event_ids = <<>>
       THEN <<Requirement("collect_events", group_name,
                          ev.min_events_per_group, <<>>)>>
       ELSE (IF missing_count > 0
             THEN <<Requirement("collect_events", group_name, missing_count, <<>>)>>
             ELSE <<>>)
            \o ListRequirement("compute_metrics", group_name,
                               stats.missing_metric_event_ids)
            \o ListRequirement("improve_cgm_coverage", group_name,
                               stats.low_quality_metric_event_ids)
            \o ListRequirement("recompute_metrics", group_name,
                               stats.window_mismatch_event_ids)
            \o ListRequirement("collect_isolated_events", group_name,
                               stats.confounded_event_ids)

----------------------------------------------------------------------------
(* evaluate *)

EmptyStats ==
    [metric_name |-> "", matched_event_ids |-> <<>>, usable_event_ids |-> <<>>,
     confounded_event_ids |-> <<>>, missing_metric_event_ids |-> <<>>,
     low_quality_metric_event_ids |-> <<>>, window_mismatch_event_ids |-> <<>>]

\* No call has returned yet, or the call raised.
NoResult(raised) ==
    [raised |-> raised, answerable |-> FALSE, reasons |-> <<>>,
     data_requirements |-> <<>>,
     match_stats |-> [exposure |-> EmptyStats, comparison |-> EmptyStats,
                      confounded_event_ids |-> <<>>,
                      overlap_event_ids |-> <<>>]]

\* SubjectReason without the test that the collection has a subject_id.
SubjectReasonAlways(q, data) ==
    IF q.subject_id # "" /\ data.subject_id # q.subject_id
    THEN <<_reason("subject_id_mismatch", "", TRUE, <<>>, -1, -1)>>
    ELSE <<>>

\* The subject_id_mismatch reason of a collection, if any.
SubjectReason(q, data) ==
    IF data.subject_id # "" /\ q.subject_id # ""
       /\ data.subject_id # q.subject_id
    THEN <<_reason("subject_id_mismatch", "", TRUE, <<>>, -1, -1)>>
    ELSE <<>>

\* The mutant of Overlap: the ids matched by either group.
OverlapEither(exposure_ids, comparison_ids) ==
    SortedSeq(exposure_ids \cup comparison_ids)

\* overlap_ids = sorted(set(exposure_ids) & set(comparison_ids))
Overlap(exposure_ids, comparison_ids) ==
    SortedSeq(exposure_ids \cap comparison_ids)

\* The mutant of Answerable: answerable only when there is no reason at all.
AnswerableNoReasons(reasons) == reasons = <<>>

\* answerable = not any(reason["blocking"] for reason in reasons)
Answerable(reasons) == ~\E i \in 1..Len(reasons) : reasons[i].blocking

\* The events evaluate keeps: those whose start lies in the time span.
EventsInSpan(q, events) ==
    SelectSeq(events, LAMBDA e : _event_in_span(e, q))

\* evaluate raises: question["outcome"], question["exposure"] or
\* question["comparison"] is missing (KeyError), a timestamp does not parse
\* (ValueError), or an ordering is applied to values Python does not order
\* (TypeError).
evaluate_raises(ev, q, ed, md) ==
    \/ ~q.has_outcome
    \/ _parse_time_span_raises(q)
    \/ \E i \in 1..Len(ed.events) : _event_in_span_raises(ed.events[i], q)
    \/ ~q.has_exposure
    \/ ~q.has_comparison
    \/ LET in_span == EventsInSpan(q, ed.events)
       IN \/ \E i \in 1..Len(in_span) :
                \/ GroupMatch(in_span[i], q.exposure, q.condition).raised
                \/ GroupMatch(in_span[i], q.comparison, q.condition).raised
          \/ _find_confounded_events_raises(ev, in_span,
                                            ev.min_isolation_minutes)

\* evaluate, when it returns
evaluate_returns(ev, q, ed, md) ==
    LET events_in_span == EventsInSpan(q, ed.events)
        exposure_matches ==
            SelectSeq(events_in_span,
                      LAMBDA e : GroupMatch(e, q.exposure, q.condition).v)
        comparison_matches ==
            SelectSeq(events_in_span,
                      LAMBDA e : GroupMatch(e, q.comparison, q.condition).v)
        exposure_ids == {exposure_matches[i].event_id :
                            i \in 1..Len(exposure_matches)}
        comparison_ids == {comparison_matches[i].event_id :
                            i \in 1..Len(comparison_matches)}
        overlap_ids == Overlap(exposure_ids, comparison_ids)
        confounded_ids ==
            _find_confounded_events(ev, events_in_span, ev.min_isolation_minutes)
        exposure_stats ==
            _evaluate_group(ev, exposure_matches, md.metrics, q, confounded_ids)
        comparison_stats ==
            _evaluate_group(ev, comparison_matches, md.metrics, q, confounded_ids)
        reasons ==
            SubjectReason(q, ed)
            \o SubjectReason(q, md)
            \o (IF overlap_ids # <<>>
                THEN <<_reason("ambiguous_event_definition", "", TRUE,
                               overlap_ids, -1, -1)>>
                ELSE <<>>)
            \o _group_reasons(ev, "exposure", exposure_stats)
            \o _group_reasons(ev, "comparison", comparison_stats)
        data_requirements ==
            _group_data_requirements(ev, "exposure", exposure_stats)
            \o _group_data_requirements(ev, "comparison", comparison_stats)
            \o (IF overlap_ids # <<>>
                THEN <<Requirement("refine_definitions", "", -1, overlap_ids)>>
                ELSE <<>>)
    IN [raised |-> FALSE,
        answerable |-> Answerable(reasons),
        reasons |-> reasons,
        data_requirements |-> data_requirements,
        match_stats |-> [exposure |-> exposure_stats,
                         comparison |-> comparison_stats,
                         confounded_event_ids |-> confounded_ids,
                         overlap_event_ids |-> overlap_ids]]

\* QuestionAnswerabilityEvaluator.evaluate
evaluate(ev, q, ed, md) ==
    IF evaluate_raises(ev, q, ed, md) THEN NoResult(TRUE)
    ELSE evaluate_returns(ev, q, ed, md)

----------------------------------------------------------------------------
(* Metrics engine (src/cgm_metrics/event_metrics.py) *)

\* Encoding: a timestamp is a number of minutes, glucose values, offsets and
\* the sampling interval are integers, and a float the engine computes is
\* the fraction [num, den] with den > 0, not reduced.  Of a metric result the
\* model keeps event_id, metric_name, window, value, coverage_ratio,
\* quality_flags and the counts, peak and baseline of quality_summary.
Frac(num, den) == [num |-> num, den |-> den]

FracOfInt(n) == Frac(n, 1)

FracEq(a, b) == a.num * b.den = b.num * a.den

FracLess(a, b) == a.num * b.den < b.num * a.den

FracLessEq(a, b) == a.num * b.den <= b.num * a.den

\* a - b
FracSub(a, b) == Frac(a.num * b.den - b.num * a.den, a.den * b.den)

\* a + b
FracAdd(a, b) ==
    IF a.den = b.den THEN Frac(a.num + b.num, a.den)
    ELSE Frac(a.num * b.den + b.num * a.den, a.den * b.den)

\* a * k for an integer k, and a / 2.0
FracScale(a, k) == Frac(a.num * k, a.den)

FracHalf(a) == Frac(a.num, 2 * a.den)

\* min(a, b) and np.maximum(a, b)
FracMin(a, b) == IF FracLess(b, a) THEN b ELSE a

FracMax(a, b) == IF FracLess(a, b) THEN b ELSE a

\* int(x / y) of Python for y > 0: the quotient truncated toward zero.
IntOfQuotient(x, y) == IF x >= 0 THEN x \div y ELSE -((-x) \div y)

RECURSIVE SumSeq(_)
SumSeq(seq) == IF seq = <<>> THEN 0 ELSE Head(seq) + SumSeq(Tail(seq))

\* [sample["glucose_value"] for sample in samples]
GlucoseValues(samples) ==
    [i \in 1..Len(samples) |-> samples[i].glucose_value]

\* np.mean of a non-empty list
Mean(values) == Frac(SumSeq(values), Len(values))

\* The least value of a non-empty list, where np.max takes the greatest.
MinOf(values) ==
    CHOOSE v \in Range(values) : \A w \in Range(values) : v <= w

\* np.max of a non-empty list
MaxOf(values) ==
    CHOOSE v \in Range(values) : \A w \in Range(values) : w <= v

\* The last index of the maximum, where np.argmax takes the first.
ArgMaxLast(values) ==
    CHOOSE i \in 1..Len(values) :
        /\ \A j \in 1..Len(values) : values[j] <= values[i]
        /\ \A j \in (i + 1)..Len(values) : values[j] < values[i]

\* np.argmax: the first index of the maximum (indices from 1).
ArgMax(values) ==
    CHOOSE i \in 1..Len(values) :
        /\ \A j \in 1..Len(values) : values[j] <= values[i]
        /\ \A j \in 1..(i - 1) : values[j] < values[i]

\* _calculate_expected_samples
_calculate_expected_samples(window, sampling_interval) ==
    LET window_duration ==
            window.end_offset_minutes - window.start_offset_minutes
        expected_samples == IntOfQuotient(window_duration, sampling_interval) + 1
    IN IF expected_samples > 0 THEN expected_samples ELSE 0

\* The samples _extract_window_samples keeps, in the order of the series.
WindowSamples(data, reference_time, window) ==
    LET window_start == reference_time + window.start_offset_minutes
        window_end == reference_time + window.end_offset_minutes
    IN SelectSeq(data.samples,
                 LAMBDA sample : /\ window_start <= sample.timestamp
                                 /\ sample.timestamp <= window_end)

\* The test for interpolated that looks for artifact only.
InterpolatedArtifactOnly(window_samples) ==
    \E i \in 1..Len(window_samples) :
        "artifact" \in window_samples[i].quality_flags

\* The loop of _extract_window_samples over the sample flags: a sample of
\* the window carries artifact or sensor_error.
Interpolated(window_samples) ==
    \E i \in 1..Len(window_samples) :
        window_samples[i].quality_flags \cap {"artifact", "sensor_error"} # {}

\* _extract_window_samples without min(coverage_ratio, 1.0).
ExtractUncapped(data, reference_time, window) ==
    LET window_samples == WindowSamples(data, reference_time, window)
        expected_samples ==
            _calculate_expected_samples(window, data.sampling_interval_minutes)
        coverage_ratio ==
            IF expected_samples > 0
            THEN Frac(Len(window_samples), expected_samples)
            ELSE FracOfInt(1)
        flagged == Interpolated(window_samples)
    IN [samples |-> window_samples,
        coverage_ratio |-> coverage_ratio,
        quality_flags |->
            (IF FracLess(coverage_ratio, Frac(7, 10))
             THEN {"low_coverage"} ELSE {})
            \cup (IF FracLess(coverage_ratio, FracOfInt(1))
                  THEN {"missing_data"} ELSE {})
            \cup (IF flagged THEN {"interpolated"} ELSE {})]

\* _extract_window_samples: (window_samples, coverage_ratio, quality_flags)
_extract_window_samples(data, reference_time, window) ==
    LET window_samples == WindowSamples(data, reference_time, window)
        expected_samples ==
            _calculate_expected_samples(window, data.sampling_interval_minutes)
        coverage_ratio ==
            FracMin(IF expected_samples > 0
                    THEN Frac(Len(window_samples), expected_samples)
                    ELSE FracOfInt(1),
                    FracOfInt(1))
        flagged == Interpolated(window_samples)
    IN [samples |-> window_samples,
        coverage_ratio |-> coverage_ratio,
        quality_flags |->
            (IF FracLess(coverage_ratio, Frac(7, 10))
             THEN {"low_coverage"} ELSE {})
            \cup (IF FracLess(coverage_ratio, FracOfInt(1))
                  THEN {"missing_data"} ELSE {})
            \cup (IF flagged THEN {"interpolated"} ELSE {})]

\* The fields of quality_summary a result does not have.
NoSummary ==
    [window_samples |-> 0, expected_samples |-> 0,
     recovery_window_samples |-> 0, recovery_expected_samples |-> 0,
     has_peak |-> FALSE, peak_glucose |-> 0, peak_time |-> 0,
     has_baseline |-> FALSE, baseline_glucose |-> FracOfInt(0)]

\* A calculator raised CGMEventMetricsError, or none was called yet.
NoMetric(metric_name, raised) ==
    [raised |-> raised, event_id |-> 0, metric_name |-> metric_name,
     window |-> NoWindow, value |-> FracOfInt(0),
     coverage_ratio |-> FracOfInt(0), quality_flags |-> {},
     quality_summary |-> NoSummary]

MetricError(metric_name) == NoMetric(metric_name, TRUE)

\* The flags of the post-event window alone.
OwnQualityFlags(baseline_flags, window_flags) == window_flags

\* all_quality_flags = list(set(baseline_result.get("quality_flags", [])
\*                              + peak_quality_flags))
AllQualityFlags(baseline_flags, window_flags) ==
    baseline_flags \cup window_flags

\* calculate_baseline_glucose
calculate_baseline_glucose(data, ev, window) ==
    LET extracted == _extract_window_samples(data, ev.start_time, window)
    IN IF Len(extracted.samples) = 0 THEN MetricError("baseline_glucose")
       ELSE [raised |-> FALSE,
             event_id |-> ev.event_id,
             metric_name |-> "baseline_glucose",
             window |-> SingleWindow(window),
             value |-> Mean(GlucoseValues(extracted.samples)),
             coverage_ratio |-> extracted.coverage_ratio,
             quality_flags |-> extracted.quality_flags,
             quality_summary |->
                [NoSummary EXCEPT
                    !.window_samples = Len(extracted.samples),
                    !.expected_samples =
                        _calculate_expected_samples(
                            window, data.sampling_interval_minutes)]]

\* calculate_delta_peak
calculate_delta_peak(data, ev, baseline_window, peak_window) ==
    LET baseline_result == calculate_baseline_glucose(data, ev, baseline_window)
        peak == _extract_window_samples(data, ev.start_time, peak_window)
        peak_values == GlucoseValues(peak.samples)
        peak_glucose == MaxOf(peak_values)
        peak_time == peak.samples[ArgMax(peak_values)].timestamp
    IN IF baseline_result.raised \/ Len(peak.samples) = 0
       THEN MetricError("delta_peak")
       ELSE [raised |-> FALSE,
             event_id |-> ev.event_id,
             metric_name |-> "delta_peak",
             window |-> PairWindow("baseline_window,peak_window",
                                   baseline_window, peak_window),
             value |-> FracSub(FracOfInt(peak_glucose), baseline_result.value),
             coverage_ratio |-> peak.coverage_ratio,
             quality_flags |->
                AllQualityFlags(baseline_result.quality_flags, peak.quality_flags),
             quality_summary |->
                [NoSummary EXCEPT
                    !.has_peak = TRUE,
                    !.peak_glucose = peak_glucose,
                    !.peak_time = peak_time,
                    !.has_baseline = TRUE,
                    !.baseline_glucose = baseline_result.value,
                    !.window_samples = Len(peak.samples),
                    !.expected_samples =
                        _calculate_expected_samples(
                            peak_window, data.sampling_interval_minutes)]]

\* A requirement of one sample where the code requires two.
InsufficientDataNone(samples) == Len(samples) = 0

\* len(auc_samples) < 2 and len(recovery_samples) < 2
InsufficientData(samples) == Len(samples) < 2

\* values - baseline without np.maximum(differences, 0).
SignedDifference(glucose_value, baseline) ==
    FracSub(FracOfInt(glucose_value), baseline)

\* np.maximum(values - baseline, 0) for one value
PositiveDifference(glucose_value, baseline) ==
    FracMax(FracSub(FracOfInt(glucose_value), baseline),
            Frac(0, baseline.den))

\* The loop of calculate_iAUC: the trapezoids of the positive differences
\* from segment i on.
RECURSIVE Trapezoids(_, _, _)
Trapezoids(samples, positive_differences, i) ==
    IF i >= Len(samples) THEN FracOfInt(0)
    ELSE LET time_delta == samples[i + 1].timestamp - samples[i].timestamp
             avg_value == FracHalf(FracAdd(positive_differences[i],
                                           positive_differences[i + 1]))
         IN FracAdd(FracScale(avg_value, time_delta),
                    Trapezoids(samples, positive_differences, i + 1))

\* calculate_iAUC
calculate_iAUC(data, ev, baseline_window, auc_window) ==
    LET baseline_result == calculate_baseline_glucose(data, ev, baseline_window)
        auc == _extract_window_samples(data, ev.start_time, auc_window)
        positive_differences ==
            [i \in 1..Len(auc.samples) |->
                PositiveDifference(auc.samples[i].glucose_value,
                                   baseline_result.value)]
        area == Trapezoids(auc.samples, positive_differences, 1)
    IN IF baseline_result.raised \/ InsufficientData(auc.samples)
       THEN MetricError("iAUC")
       ELSE [raised |-> FALSE,
             event_id |-> ev.event_id,
             metric_name |-> "iAUC",
             window |-> PairWindow("baseline_window,auc_window",
                                   baseline_window, auc_window),
             value |-> area,
             coverage_ratio |-> auc.coverage_ratio,
             quality_flags |->
                AllQualityFlags(baseline_result.quality_flags, auc.quality_flags),
             quality_summary |->
                [NoSummary EXCEPT
                    !.has_baseline = TRUE,
                    !.baseline_glucose = baseline_result.value,
                    !.window_samples = Len(auc.samples),
                    !.expected_samples =
                        _calculate_expected_samples(
                            auc_window, data.sampling_interval_minutes)]]

\* calculate_time_to_peak
calculate_time_to_peak(data, ev, window) ==
    LET extracted == _extract_window_samples(data, ev.start_time, window)
        values == GlucoseValues(extracted.samples)
        peak_index == ArgMax(values)
        peak_time == extracted.samples[peak_index].timestamp
    IN IF Len(extracted.samples) = 0 THEN MetricError("time_to_peak")
       ELSE [raised |-> FALSE,
             event_id |-> ev.event_id,
             metric_name |-> "time_to_peak",
             window |-> SingleWindow(window),
             value |-> FracOfInt(peak_time - ev.start_time),
             coverage_ratio |-> extracted.coverage_ratio,
             quality_flags |-> extracted.quality_flags,
             quality_summary |->
                [NoSummary EXCEPT
                    !.has_peak = TRUE,
                    !.peak_glucose = values[peak_index],
                    !.peak_time = peak_time,
                    !.window_samples = Len(extracted.samples),
                    !.expected_samples =
                        _calculate_expected_samples(
                            window, data.sampling_interval_minutes)]]

\* The slope of np.polyfit(x, y, 1): the least squares line through the
\* samples, x being the minutes from the center sample.
PolyfitSlope(samples) ==
    LET n == Len(samples)
        center_time == samples[(n \div 2) + 1].timestamp
        x == [i \in 1..n |-> samples[i].timestamp - center_time]
        y == GlucoseValues(samples)
    IN Frac(n * SumSeq([i \in 1..n |-> x[i] * y[i]]) - SumSeq(x) * SumSeq(y),
            n * SumSeq([i \in 1..n |-> x[i] * x[i]]) - SumSeq(x) * SumSeq(x))

\* calculate_recovery_slope
calculate_recovery_slope(data, ev, peak_window, recovery_window) ==
    LET peak == _extract_window_samples(data, ev.start_time, peak_window)
        recovery ==
            _extract_window_samples(data, ev.start_time, recovery_window)
        peak_values == GlucoseValues(peak.samples)
    IN IF Len(peak.samples) = 0 \/ InsufficientData(recovery.samples)
       THEN MetricError("recovery_slope")
       ELSE [raised |-> FALSE,
             event_id |-> ev.event_id,
             metric_name |-> "recovery_slope",
             window |-> PairWindow("peak_window,recovery_window",
                                   peak_window, recovery_window),
             value |-> PolyfitSlope(recovery.samples),
             coverage_ratio |->
                FracHalf(FracAdd(peak.coverage_ratio, recovery.coverage_ratio)),
             quality_flags |-> peak.quality_flags \cup recovery.quality_flags,
             quality_summary |->
                [NoSummary EXCEPT
                    !.has_peak = TRUE,
                    !.peak_glucose = peak_values[ArgMax(peak_values)],
                    !.peak_time = peak.samples[ArgMax(peak_values)].timestamp,
                    !.window_samples = Len(peak.samples),
                    !.expected_samples =
                        _calculate_expected_samples(
                            peak_window, data.sampling_interval_minutes),
                    !.recovery_window_samples = Len(recovery.samples),
                    !.recovery_expected_samples =
                        _calculate_expected_samples(
                            recovery_window, data.sampling_interval_minutes)]]

\* The default windows of the calculators ([-30, 0], [0, 180] and
\* [120, 240] in the code), brought to the minutes of the model: a baseline
\* window that ends at the event start, a peak window that starts there,
\* and a recovery window that starts inside the peak window and ends after
\* it.
DefaultWindows ==
    [baseline_window |-> WindowSpec("event_start", -4, 0),
     peak_window |-> WindowSpec("event_start", 0, 3),
     recovery_window |-> WindowSpec("event_start", 2, 4)]

\* The five calls of calculate_all_metrics, in its order.
DefaultResults(data, ev) ==
    <<calculate_baseline_glucose(data, ev, DefaultWindows.baseline_window),
      calculate_delta_peak(data, ev, DefaultWindows.baseline_window,
                           DefaultWindows.peak_window),
      calculate_iAUC(data, ev, DefaultWindows.baseline_window,
                     DefaultWindows.peak_window),
      calculate_time_to_peak(data, ev, DefaultWindows.peak_window),
      calculate_recovery_slope(data, ev, DefaultWindows.peak_window,
                               DefaultWindows.recovery_window)>>

\* The same calls in one try: no result after the first
\* CGMEventMetricsError.
AllMetricsAborting(data, ev) ==
    LET results == DefaultResults(data, ev)
        failed == {i \in 1..Len(results) : results[i].raised}
        first_failed == CHOOSE i \in failed : \A k \in failed : i <= k
    IN IF failed = {} THEN results
       ELSE SubSeq(results, 1, first_failed - 1)

\* calculate_all_metrics: each call in its own try, a CGMEventMetricsError
\* is logged and its metric left out.
calculate_all_metrics(data, ev) ==
    SelectSeq(DefaultResults(data, ev), LAMBDA r : ~r.raised)

\* calculate_all_metrics catches CGMEventMetricsError only: the ValueError
\* of datetime.fromisoformat on the start_time of the event leaves it.
calculate_all_metrics_raises(ev) == ~ev.start_parses

\* A collection without metrics and without warnings.
NoCollection == [metrics |-> <<>>, warnings |-> {}]

\* The loop of calculate_event_metrics from the event of index i on.
RECURSIVE CollectFrom(_, _, _)
CollectFrom(data, events, i) ==
    IF i > Len(events) THEN NoCollection
    ELSE LET rest == CollectFrom(data, events, i + 1)
         IN IF calculate_all_metrics_raises(events[i])
            THEN [rest EXCEPT !.warnings = @ \cup {events[i].event_id}]
            ELSE [rest EXCEPT
                    !.metrics = calculate_all_metrics(data, events[i]) \o @]

\* calculate_event_metrics (src/cgm_metrics/cli.py): the metrics of the
\* collection and the event ids that have an entry in its warnings.
calculate_event_metrics(data, events_doc) == CollectFrom(data, events_doc, 1)

\* The metrics engine before any series is given to it.
NoSeries == [sampling_interval_minutes |-> 1, samples |-> <<>>]

NoCgmEvent == [event_id |-> 0, start_time |-> 0]

NoWindows ==
    [baseline_window |-> NoSpec, peak_window |-> NoSpec,
     recovery_window |-> NoSpec]

EngineIdle ==
    /\ cgm_data = NoSeries
    /\ cgm_event = NoCgmEvent
    /\ windows = NoWindows
    /\ computed = NoMetric("", FALSE)
    /\ event_metrics = <<>>
    /\ cgm_events = <<>>
    /\ metrics_collection = NoCollection

----------------------------------------------------------------------------
(* Event signals (src/cgm_signals/event_signals.py) *)

\* A metric as EventSignalEvaluator reads it: value, coverage_ratio when the
\* dict has one (in percent), quality_summary's peak_glucose when it has one.
SignalMetric(event_id, metric_name, value, coverage, peak) ==
    [event_id |-> event_id, metric_name |-> metric_name, value |-> value,
     has_coverage_ratio |-> coverage.known, coverage_ratio |-> coverage.ratio,
     has_peak_glucose |-> peak.known, peak_glucose |-> peak.glucose]

\* required = ["delta_peak", "iAUC", "nadir_glucose", "recovery_slope"],
\* the keys of history too.
RequiredMetrics == <<"delta_peak", "iAUC", "nadir_glucose", "recovery_slope">>

\* The positions of the smallest start_time of a list of events.
EarliestPositions(event_list) ==
    {i \in 1..Len(event_list) :
        \A j \in 1..Len(event_list) :
            event_list[i].start_time <= event_list[j].start_time}

\* Without the element at position i.
WithoutPosition(seq, i) == SubSeq(seq, 1, i - 1) \o SubSeq(seq, i + 1, Len(seq))

\* sorted(events, key=lambda e: _parse_time(e["start_time"])): ascending
\* start_time, events of one start_time in the order of the document.
RECURSIVE SortedByStart(_)
SortedByStart(event_list) ==
    IF event_list = <<>> THEN <<>>
    ELSE LET first == CHOOSE i \in EarliestPositions(event_list) :
                        \A j \in EarliestPositions(event_list) : i <= j
         IN <<event_list[first]>>
            \o SortedByStart(WithoutPosition(event_list, first))

\* name in metrics_by_event.get(event_id, {})
HasMetric(metric_list, event_id, metric_name) ==
    \E i \in 1..Len(metric_list) :
        /\ metric_list[i].event_id = event_id
        /\ metric_list[i].metric_name = metric_name

\* metrics_by_event[event_id][metric_name]: the last such metric of the
\* document.
MetricNamed(metric_list, event_id, metric_name) ==
    LET hits == {i \in 1..Len(metric_list) :
                    /\ metric_list[i].event_id = event_id
                    /\ metric_list[i].metric_name = metric_name}
    IN metric_list[CHOOSE i \in hits : \A j \in hits : j <= i]

\* missing = [name for name in required if name not in event_metrics]
MissingMetrics(metric_list, event_id) ==
    SelectSeq(RequiredMetrics,
              LAMBDA name : ~HasMetric(metric_list, event_id, name))

\* coverage_ratio = min(coverage_values) if coverage_values else None
NoCoverage == [known |-> FALSE, ratio |-> 0]

MinCoverage(metric_list, event_id) ==
    LET coverage_values ==
            {MetricNamed(metric_list, event_id, name).coverage_ratio :
                name \in {n \in Range(RequiredMetrics) :
                    /\ HasMetric(metric_list, event_id, n)
                    /\ MetricNamed(metric_list, event_id, n)
                            .has_coverage_ratio}}
    IN IF coverage_values = {} THEN NoCoverage
       ELSE [known |-> TRUE,
             ratio |-> CHOOSE c \in coverage_values :
                            \A d \in coverage_values : c <= d]

\* The gray test that looks at the missing metrics only.
GrayWhenMissing(missing, coverage, coverage_soft) == missing # <<>>

\* if missing or coverage_ratio is None or coverage_ratio < coverage_soft
Gray(missing, coverage, coverage_soft) ==
    \/ missing # <<>>
    \/ ~coverage.known
    \/ coverage.ratio < coverage_soft

\* A trigger: its metric, basis and severity.
Trigger(metric, basis, severity) ==
    [metric |-> metric, basis |-> basis, severity |-> severity]

\* The triggers of a gray event.
GrayTriggers(missing, coverage, coverage_soft) ==
    [i \in 1..Len(missing) |-> Trigger(missing[i], "missing_metric", "soft")]
    \o (IF ~coverage.known \/ coverage.ratio < coverage_soft
        THEN <<Trigger("coverage_ratio", "coverage_soft", "soft")>>
        ELSE <<>>)

\* The values of a list in ascending order.
RECURSIVE SortedValues(_)
SortedValues(values) ==
    IF values = <<>> THEN <<>>
    ELSE LET least == CHOOSE i \in 1..Len(values) :
                        \A j \in 1..Len(values) : values[i] <= values[j]
         IN <<values[least]>> \o SortedValues(WithoutPosition(values, least))

\* 100 * np.percentile(values, p): linear interpolation between the two
\* values next to rank p / 100 * (n - 1).
_percentile(values, p) ==
    LET ordered == SortedValues(values)
        rank == p * (Len(values) - 1)
        below == rank \div 100 + 1
        part == rank % 100
    IN IF part = 0 THEN 100 * ordered[below]
       ELSE 100 * ordered[below]
            + part * (ordered[below + 1] - ordered[below])

\* history[metric_name][-self.history_size:]
LastValues(values, history_size) ==
    IF Len(values) <= history_size THEN values
    ELSE SubSeq(values, Len(values) - history_size + 1, Len(values))

\* eval_high: the trigger of a value at or above the personal P90 (hard)
\* or P75 (soft), once the history holds min_history values.
eval_high(se, metric_list, event_id, past, metric_name) ==
    LET values == LastValues(past[metric_name], se.history_size)
        value == MetricNamed(metric_list, event_id, metric_name).value
    IN IF Len(values) < se.min_history THEN <<>>
       ELSE IF 100 * value >= _percentile(values, 90)
       THEN <<Trigger(metric_name, "personal_p90", "hard")>>
       ELSE IF 100 * value >= _percentile(values, 75)
       THEN <<Trigger(metric_name, "personal_p75", "soft")>>
       ELSE <<>>

\* eval_low: the trigger of a value at or below the personal P10 (hard) or
\* P25 (soft).
eval_low(se, metric_list, event_id, past, metric_name) ==
    LET values == LastValues(past[metric_name], se.history_size)
        value == MetricNamed(metric_list, event_id, metric_name).value
    IN IF Len(values) < se.min_history THEN <<>>
       ELSE IF 100 * value <= _percentile(values, 10)
       THEN <<Trigger(metric_name, "personal_p10", "hard")>>
       ELSE IF 100 * value <= _percentile(values, 25)
       THEN <<Trigger(metric_name, "personal_p25", "soft")>>
       ELSE <<>>

\* _evaluate_personal_thresholds
_evaluate_personal_thresholds(se, metric_list, event_id, past) ==
    eval_high(se, metric_list, event_id, past, "delta_peak")
    \o eval_high(se, metric_list, event_id, past, "iAUC")
    \o eval_high(se, metric_list, event_id, past, "recovery_slope")
    \o eval_low(se, metric_list, event_id, past, "nadir_glucose")

\* The hard thresholds in mg/dL, times ten: 7.8 * 18.0 and 3.9 * 18.0.
PeakThresholdTenths == 1404
NadirThresholdTenths == 702

\* The triggers of the hard thresholds on peak glucose and on the nadir.
HardTriggers(metric_list, event_id) ==
    LET delta_peak == MetricNamed(metric_list, event_id, "delta_peak")
        nadir == MetricNamed(metric_list, event_id, "nadir_glucose")
    IN (IF delta_peak.has_peak_glucose
           /\ 10 * delta_peak.peak_glucose > PeakThresholdTenths
        THEN <<Trigger("peak_glucose", "hard", "hard")>> ELSE <<>>)
       \o (IF 10 * nadir.value < NadirThresholdTenths
           THEN <<Trigger("nadir_glucose", "hard", "hard")>> ELSE <<>>)

\* The triggers of an event that is not gray: the hard ones, then the soft
\* ones.
SignalTriggers(se, metric_list, event_id, past) ==
    LET personal_triggers ==
            _evaluate_personal_thresholds(se, metric_list, event_id, past)
        hard_triggers ==
            HardTriggers(metric_list, event_id)
            \o SelectSeq(personal_triggers, LAMBDA t : t.severity = "hard")
        soft_triggers ==
            SelectSeq(personal_triggers, LAMBDA t : t.severity # "hard")
    IN hard_triggers \o soft_triggers

\* red if hard_triggers, yellow if soft_triggers, else green
SignalStatus(triggers) ==
    IF \E i \in 1..Len(triggers) : triggers[i].severity = "hard" THEN "red"
    ELSE IF triggers # <<>> THEN "yellow"
    ELSE "green"

\* The dict one turn of the loop appends to signals.
Signal(se, metric_list, event_id, past) ==
    LET missing == MissingMetrics(metric_list, event_id)
        coverage == MinCoverage(metric_list, event_id)
    IN IF Gray(missing, coverage, se.coverage_soft)
       THEN [event_id |-> event_id, status |-> "gray",
             coverage_ratio |-> coverage,
             triggers |-> GrayTriggers(missing, coverage, se.coverage_soft)]
       ELSE LET triggers == SignalTriggers(se, metric_list, event_id, past)
            IN [event_id |-> event_id, status |-> SignalStatus(triggers),
                coverage_ratio |-> coverage, triggers |-> triggers]

\* _update_history
_update_history(se, past, metric_list, event_id, coverage) ==
    IF ~coverage.known \/ coverage.ratio < se.coverage_soft THEN past
    ELSE [name \in Range(RequiredMetrics) |->
            IF HasMetric(metric_list, event_id, name)
            THEN Append(past[name],
                        MetricNamed(metric_list, event_id, name).value)
            ELSE past[name]]

\* history = {"delta_peak": [], "iAUC": [], "nadir_glucose": [],
\*            "recovery_slope": []}
EmptyHistory == [name \in Range(RequiredMetrics) |-> <<>>]

\* No call of EventSignalEvaluator.evaluate is under way.
SignalsIdle ==
    /\ signal_evaluator = [coverage_soft |-> 0, history_size |-> 0,
                           min_history |-> 0]
    /\ signal_events = <<>>
    /\ signal_metrics = <<>>
    /\ events_sorted = <<>>
    /\ history = EmptyHistory
    /\ signals = <<>>

----------------------------------------------------------------------------
(* The inputs *)

\* The most events an events document holds.
MaxEvents == 3

\* The defaults of QuestionAnswerabilityEvaluator.__init__; coverage is in
\* percent.
DefaultMinEventsPerGroup == 2
DefaultMinMetricCoverage == 70
DefaultMinIsolationMinutes == 30
DefaultEventDurationMinutes == 30

\* QuestionAnswerabilityEvaluator.__init__
NewEvaluator(min_events_per_group) ==
    [min_events_per_group |-> min_events_per_group,
     min_metric_coverage |-> DefaultMinMetricCoverage,
     min_isolation_minutes |-> DefaultMinIsolationMinutes,
     default_event_duration_minutes |-> DefaultEventDurationMinutes]

MinEventsChoices == {1, DefaultMinEventsPerGroup}

\* The outcome window of the questions of the tests, the default AUC window of
\* the metrics engine, and the window the metrics engine attaches to iAUC.
TestWindow == SingleWindow(WindowSpec("event_start", 0, 120))
AucWindow == SingleWindow(WindowSpec("event_start", 0, 180))
EngineIAUCWindow ==
    PairWindow("baseline_window,auc_window",
               WindowSpec("event_start", -30, 0),
               WindowSpec("event_start", 0, 180))

Selector(component, operator, value, unit) ==
    [component |-> component, operator |-> operator, value |-> value,
     unit |-> unit]

Definition(event_type, selector) ==
    [event_type |-> event_type, selector |-> selector]

Condition(name, operator, value, unit) ==
    [name |-> name, operator |-> operator, value |-> value, unit |-> unit]

\* The first instant of the model's time axis is 08:00 of the first day.
BaseTime == 8 * 60

WideSpan == [start_time |-> Aware(0), end_time |-> Aware(100000)]

\* The question of the tests (_base_question).
BaseQuestion ==
    [subject_id |-> "test_subject",
     time_zone |-> "UTC",
     has_exposure |-> TRUE,
     exposure |-> Definition("meal", Selector("label", "=", Str("food_x"), "text")),
     has_comparison |-> TRUE,
     comparison |-> Definition("meal", Selector("label", "=", Str("food_y"), "text")),
     has_outcome |-> TRUE,
     outcome |-> [metric_name |-> "iAUC", window |-> TestWindow],
     condition |-> <<>>,
     has_time_span |-> TRUE,
     time_span |-> WideSpan]

\* An event of the tests (_make_event), with or without end_time.
Event(event_id, event_type, label, start_time, has_end_time, end_time) ==
    [event_id |-> event_id, event_type |-> event_type, label |-> label,
     start_time |-> start_time, has_end_time |-> has_end_time,
     end_time |-> end_time, exposure_components |-> <<>>]

\* A metric of the tests (_make_metric), coverage in percent.
Metric(event_id, metric_name, window, coverage) ==
    [event_id |-> event_id, metric_name |-> metric_name, window |-> window,
     has_coverage_ratio |-> TRUE, coverage_ratio |-> coverage,
     has_coverage_percentage |-> FALSE, coverage_percentage |-> 0]

\* A metric that carries its coverage only in quality_summary.
SummaryMetric(event_id, metric_name, window, coverage) ==
    [event_id |-> event_id, metric_name |-> metric_name, window |-> window,
     has_coverage_ratio |-> FALSE, coverage_ratio |-> 0,
     has_coverage_percentage |-> TRUE, coverage_percentage |-> coverage]

\* The metrics an event comes with, by name of the case.
MetricsCase(event_id, case) ==
    CASE case = "none" -> <<>>
      [] case = "other_name" ->
            <<Metric(event_id, "baseline_glucose", TestWindow, 90)>>
      [] case = "pair_window" -> <<Metric(event_id, "iAUC", EngineIAUCWindow, 90)>>
      [] case = "low" -> <<Metric(event_id, "iAUC", TestWindow, 50)>>
      [] case = "threshold" -> <<Metric(event_id, "iAUC", TestWindow, 70)>>
      [] case = "good" -> <<Metric(event_id, "iAUC", TestWindow, 90)>>
      [] case = "second" -> <<Metric(event_id, "iAUC", AucWindow, 90),
                              Metric(event_id, "iAUC", TestWindow, 90)>>
      [] case = "summary_low" ->
            <<SummaryMetric(event_id, "iAUC", TestWindow, 50)>>
      [] case = "delta_peak" ->
            <<Metric(event_id, "delta_peak", TestWindow, 90)>>

\* The kinds of event: its event_type and label.
KindType(kind) == IF kind = "note_x" THEN "note" ELSE "meal"

KindLabel(kind) ==
    CASE kind = "meal_x" -> Str("food_x")
      [] kind = "meal_y" -> Str("food_y")
      [] kind = "meal_X" -> Str("Food_X ")
      [] kind = "meal_unlabeled" -> PyNone
      [] kind = "note_x" -> Str("food_x")

RECURSIVE Flatten(_)
Flatten(seqs) ==
    IF seqs = <<>> THEN <<>> ELSE Head(seqs) \o Flatten(Tail(seqs))

\* The events and the metrics documents; both carry time_zone.
EventsDoc(subject_id, events) ==
    [subject_id |-> subject_id, time_zone |-> "UTC", events |-> events]

MetricsDoc(subject_id, metrics) ==
    [subject_id |-> subject_id, time_zone |-> "UTC", metrics |-> metrics]

\* The value of end_time in an event that has none.
NoTime == [kind |-> "absent", min |-> 0]

\* The events of a document: ids 1..n in order, each with its kind, start
\* and end.
EventList(n, kinds, starts, ends) ==
    [i \in 1..n |->
        Event(i, KindType(kinds[i]), KindLabel(kinds[i]), starts[i],
              ends[i].kind # "absent", ends[i])]

MetricList(n, cases) == Flatten([i \in 1..n |-> MetricsCase(i, cases[i])])

\* Family 1, classification: meals labelled food_x or food_y, 200 minutes
\* apart ("isolated") or the first two 10 minutes apart ("close"), each with
\* one of the metric cases; the question's window (single or pair) and the
\* evaluator's min_events_per_group vary.
ClassifyKinds == {"meal_x", "meal_y"}
ClassifyCases == {"none", "pair_window", "low", "threshold"}
ClassifyWindows == {TestWindow, EngineIAUCWindow}

LayoutStart(layout, i) ==
    IF layout = "close" /\ i = 2 THEN Aware(BaseTime + 200 + 10)
    ELSE Aware(BaseTime + 200 * i)

InitClassify ==
    \E n \in 0..MaxEvents :
    \E kinds \in [1..n -> ClassifyKinds] :
    \E cases \in [1..n -> ClassifyCases] :
    \E layout \in {"isolated", "close"} :
    \E window \in ClassifyWindows :
    \E m \in MinEventsChoices :
        /\ evaluator = NewEvaluator(m)
        /\ question = [BaseQuestion EXCEPT !.outcome.window = window]
        /\ events_data = EventsDoc("test_subject",
                EventList(n, kinds, [i \in 1..n |-> LayoutStart(layout, i)],
                          [i \in 1..n |-> NoTime]))
        /\ metrics_data = MetricsDoc("test_subject", MetricList(n, cases))

\* Family 2, definitions: the comparison selector and the time span vary, or
\* the subject ids do, over events of every kind, 200 minutes apart, each
\* with a good iAUC metric.
DefinitionKinds == {"meal_x", "meal_y", "meal_X", "meal_unlabeled", "note_x"}

ComparisonSelectors ==
    {Selector("label", "=", Str("food_y"), "text"),
     Selector("label", "=", Str("food_x"), "text"),
     Selector("food_name", "in", List(<<Str("food_x"), Str("food_y")>>), ""),
     Selector("label", "exists", PyNone, ""),
     Selector("label", ">=", Str("food_y"), ""),
     Selector("label", "~", Str("food_y"), ""),
     Selector("", NoOperator, PyNone, "")}

\* The subject_id of the events and of the metrics documents.
SubjectPairs ==
    {<<"test_subject", "test_subject">>, <<"other_subject", "test_subject">>,
     <<"test_subject", "other_subject">>, <<"", "test_subject">>}

\* A span that holds the events starting 200 to 400 minutes after BaseTime.
NarrowSpan ==
    [start_time |-> Aware(BaseTime + 200), end_time |-> Aware(BaseTime + 400)]

\* <<comparison selector, subject ids, time span>>
DefinitionVariants ==
    (ComparisonSelectors \X {<<"test_subject", "test_subject">>}
        \X {WideSpan, NarrowSpan})
    \cup ({BaseQuestion.comparison.selector} \X SubjectPairs \X {WideSpan})

InitDefinitions ==
    \E n \in 0..MaxEvents :
    \E kinds \in [1..n -> DefinitionKinds] :
    \E variant \in DefinitionVariants :
        /\ evaluator = NewEvaluator(1)
        /\ question = [BaseQuestion EXCEPT
                !.comparison.selector = variant[1],
                !.time_span = variant[3]]
        /\ events_data = EventsDoc(variant[2][1],
                EventList(n, kinds, [i \in 1..n |-> Aware(BaseTime + 200 * i)],
                          [i \in 1..n |-> NoTime]))
        /\ metrics_data = MetricsDoc(variant[2][2],
                MetricList(n, [i \in 1..n |-> "good"]))

\* Family 3, timing: meals and notes that start 0, 50 or 130 minutes after
\* BaseTime, without end_time or with one 60 minutes after the start; the
\* span holds them all or only the first hour.
TimingKinds == {"meal_x", "note_x"}
TimingStarts == {0, 50, 130}
TimingDurations == {0, 60}

FirstHour == [start_time |-> Aware(BaseTime), end_time |-> Aware(BaseTime + 60)]

InitTiming ==
    \E n \in 0..MaxEvents :
    \E kinds \in [1..n -> TimingKinds] :
    \E starts \in [1..n -> TimingStarts] :
    \E durations \in [1..n -> TimingDurations] :
    \E span \in {WideSpan, FirstHour} :
        /\ evaluator = NewEvaluator(1)
        /\ question = [BaseQuestion EXCEPT !.time_span = span]
        /\ events_data = EventsDoc("test_subject",
                EventList(n, kinds,
                          [i \in 1..n |-> Aware(BaseTime + starts[i])],
                          [i \in 1..n |->
                            IF durations[i] = 0 THEN NoTime
                            ELSE Aware(BaseTime + starts[i] + durations[i])]))
        /\ metrics_data = MetricsDoc("test_subject",
                MetricList(n, [i \in 1..n |-> "good"]))

\* Family 4, malformed documents: a question without a required field, with
\* a time span that does not parse, without a time span, or with an ordering
\* selector; events whose start is aware, offset-less or unparsable.
MalformedQuestions ==
    {BaseQuestion,
     [BaseQuestion EXCEPT !.has_outcome = FALSE],
     [BaseQuestion EXCEPT !.has_exposure = FALSE],
     [BaseQuestion EXCEPT !.has_comparison = FALSE],
     [BaseQuestion EXCEPT !.time_span.start_time = BadTime],
     [BaseQuestion EXCEPT !.has_time_span = FALSE],
     [BaseQuestion EXCEPT
        !.exposure.selector = Selector("label", "<", Num(5), "")],
     [BaseQuestion EXCEPT
        !.comparison.selector = Selector("label", ">", Str("food_x"), "")]}

MalformedStarts == {"aware", "naive", "bad"}

InitMalformed ==
    \E n \in 0..MaxEvents :
    \E kinds \in [1..n -> ClassifyKinds] :
    \E starts \in [1..n -> MalformedStarts] :
    \E q \in MalformedQuestions :
        /\ evaluator = NewEvaluator(1)
        /\ question = q
        /\ events_data = EventsDoc("test_subject",
                EventList(n, kinds,
                          [i \in 1..n |->
                            [kind |-> starts[i], min |-> BaseTime + 200 * i]],
                          [i \in 1..n |-> NoTime]))
        /\ metrics_data = MetricsDoc("test_subject",
                MetricList(n, [i \in 1..n |-> "good"]))

\* Family 5, metric forms: meals 200 minutes apart whose metrics carry
\* another name, a second metric of the outcome's name, or the coverage only
\* in quality_summary; the question's window (none, single or pair) and
\* outcome metric vary.
FormCases == {"other_name", "second", "summary_low", "good"}
FormWindows == {NoWindow, TestWindow, EngineIAUCWindow}

InitMetricForms ==
    \E n \in 0..MaxEvents :
    \E kinds \in [1..n -> ClassifyKinds] :
    \E cases \in [1..n -> FormCases] :
    \E window \in FormWindows :
    \E metric_name \in {"iAUC", "baseline_glucose"} :
        /\ evaluator = NewEvaluator(1)
        /\ question = [BaseQuestion EXCEPT
                !.outcome.window = window,
                !.outcome.metric_name = metric_name]
        /\ events_data = EventsDoc("test_subject",
                EventList(n, kinds, [i \in 1..n |-> Aware(BaseTime + 200 * i)],
                          [i \in 1..n |-> NoTime]))
        /\ metrics_data = MetricsDoc("test_subject", MetricList(n, cases))

----------------------------------------------------------------------------
(* The state machine *)

Init ==
    /\ pc = "ready"
    /\ result = NoResult(FALSE)
    /\ previous = NoResult(FALSE)
    /\ EngineIdle
    /\ SignalsIdle
    /\ \/ InitClassify
       \/ InitDefinitions
       \/ InitTiming
       \/ InitMalformed
       \/ InitMetricForms

\* One call of evaluate on the documents.
Evaluate ==
    /\ pc = "ready"
    /\ result' = evaluate(evaluator, question, events_data, metrics_data)
    /\ pc' = "done"
    /\ UNCHANGED <<evaluator, question, events_data, metrics_data, previous>>
    /\ UNCHANGED engine_vars
    /\ UNCHANGED signal_vars

Next == Evaluate

Spec == Init /\ [][Next]_vars

Returned == pc = "done" /\ ~result.raised

----------------------------------------------------------------------------
(* A second call, after one more event *)

GroupNames == {"exposure", "comparison"}

\* question["exposure"] or question["comparison"]
GroupDefinition(q, group_name) ==
    IF group_name = "exposure" THEN q.exposure ELSE q.comparison

\* match_stats[group_name] of a result
GroupStats(r, group_name) ==
    IF group_name = "exposure" THEN r.match_stats.exposure
    ELSE r.match_stats.comparison

\* The codes of the reasons of a result.
Codes(r) == {r.reasons[i].code : i \in 1..Len(r.reasons)}

\* An added event is a meal labelled food_x or food_y without end_time that
\* starts at 08:00 or at 11:20 of the second day.
AddedKinds == {"meal_x", "meal_y"}
AddedStarts == {BaseTime + 24 * 60, BaseTime + 24 * 60 + 200}

\* Neither of two events passes the test of the confound detector on the
\* other's window.
Isolated(ev, event, others) ==
    \A i \in 1..Len(others) :
        /\ ~Intersects(ev, event, others[i], ev.min_isolation_minutes)
        /\ ~Intersects(ev, others[i], event, ev.min_isolation_minutes)

\* The documents gain one event, in the span, that matches the definition
\* and the conditions of a group with fewer usable events than
\* min_events_per_group and is isolated from every other event, and its
\* metric of the outcome's name with the question's window and coverage 0.9;
\* evaluate is called again.
AddUsableEvent ==
    /\ pc = "done"
    /\ ~result.raised
    /\ \E group_name \in GroupNames :
       \E kind \in AddedKinds :
       \E start \in AddedStarts :
            LET event_id == Len(events_data.events) + 1
                event == Event(event_id, KindType(kind), KindLabel(kind),
                               Aware(start), FALSE, NoTime)
                metric == Metric(event_id, question.outcome.metric_name,
                                 question.outcome.window, 90)
            IN /\ Len(GroupStats(result, group_name).usable_event_ids)
                    < evaluator.min_events_per_group
               /\ _event_in_span(event, question)
               /\ GroupMatch(event, GroupDefinition(question, group_name),
                             question.condition).v
               /\ Isolated(evaluator, event, events_data.events)
               /\ events_data' =
                    [events_data EXCEPT !.events = Append(@, event)]
               /\ metrics_data' =
                    [metrics_data EXCEPT !.metrics = Append(@, metric)]
    /\ previous' = result
    /\ result' = evaluate(evaluator, question, events_data', metrics_data')
    /\ pc' = "added"
    /\ UNCHANGED <<evaluator, question>>
    /\ UNCHANGED engine_vars
    /\ UNCHANGED signal_vars

\* Family 6, groups to add to: meals 200 minutes apart without a metric, with
\* a low or a good one; the comparison selects food_y or every label.
AddableCases == {"none", "low", "good"}

AddableSelectors ==
    {BaseQuestion.comparison.selector, Selector("label", "exists", PyNone, "")}

InitAddable ==
    \E n \in 0..MaxEvents :
    \E kinds \in [1..n -> ClassifyKinds] :
    \E cases \in [1..n -> AddableCases] :
    \E selector \in AddableSelectors :
    \E window \in ClassifyWindows :
    \E m \in MinEventsChoices :
        /\ evaluator = NewEvaluator(m)
        /\ question = [BaseQuestion EXCEPT
                !.comparison.selector = selector,
                !.outcome.window = window]
        /\ events_data = EventsDoc("test_subject",
                EventList(n, kinds, [i \in 1..n |-> Aware(BaseTime + 200 * i)],
                          [i \in 1..n |-> NoTime]))
        /\ metrics_data = MetricsDoc("test_subject", MetricList(n, cases))

\* Family 7, subjects and time zones: the subject_id and the time_zone of
\* the question, the events and the metrics documents vary.
ZoneChoices == {"UTC", "Asia/Shanghai"}

InitZones ==
    \E n \in 0..MaxEvents :
    \E kinds \in [1..n -> ClassifyKinds] :
    \E subjects \in SubjectPairs :
    \E zones \in [1..3 -> ZoneChoices] :
        /\ evaluator = NewEvaluator(1)
        /\ question = [BaseQuestion EXCEPT !.time_zone = zones[1]]
        /\ events_data =
            [EventsDoc(subjects[1],
                EventList(n, kinds, [i \in 1..n |-> Aware(BaseTime + 200 * i)],
                          [i \in 1..n |-> NoTime]))
             EXCEPT !.time_zone = zones[2]]
        /\ metrics_data =
            [MetricsDoc(subjects[2], MetricList(n, [i \in 1..n |-> "good"]))
             EXCEPT !.time_zone = zones[3]]

\* Family 8, the documents of test_time_of_day_in_condition: two food_x and
\* two food_y meals, one spacing apart from 08:00 on, each with a good iAUC
\* metric; the question has the time_of_day condition or none.
TimeOfDayCondition ==
    Condition("time_of_day", "in", List(<<Str("08:00"), Str("09:00")>>),
              "local_time")

TestKinds == <<"meal_x", "meal_x", "meal_y", "meal_y">>
TestSpacings == {60, 200}

InitTimeOfDay ==
    \E spacing \in TestSpacings :
    \E condition \in {<<>>, <<TimeOfDayCondition>>} :
    \E m \in MinEventsChoices :
        /\ evaluator = NewEvaluator(m)
        /\ question = [BaseQuestion EXCEPT !.condition = condition]
        /\ events_data = EventsDoc("test_subject",
                EventList(Len(TestKinds), TestKinds,
                    [i \in 1..Len(TestKinds) |->
                        Aware(BaseTime + spacing * (i - 1))],
                    [i \in 1..Len(TestKinds) |-> NoTime]))
        /\ metrics_data = MetricsDoc("test_subject",
                MetricList(Len(TestKinds),
                           [i \in 1..Len(TestKinds) |-> "good"]))

\* Family 9, the question of test_unsupported_metric_delta_peak: the outcome
\* is delta_peak; the documents are empty or hold meals, each without a
\* metric or with a delta_peak metric.
UnsupportedCases == {"none", "delta_peak"}

InitUnsupported ==
    \E n \in 0..MaxEvents :
    \E kinds \in [1..n -> ClassifyKinds] :
    \E cases \in [1..n -> UnsupportedCases] :
    \E m \in MinEventsChoices :
        /\ evaluator = NewEvaluator(m)
        /\ question = [BaseQuestion EXCEPT !.outcome.metric_name = "delta_peak"]
        /\ events_data = EventsDoc("",
                EventList(n, kinds, [i \in 1..n |-> Aware(BaseTime + 200 * i)],
                          [i \in 1..n |-> NoTime]))
        /\ metrics_data = MetricsDoc("", MetricList(n, cases))

\* Family 10, time_of_day conditions with between or with an operator
\* _compare does not know: the four meals of family 8 start at a first time
\* of day and then one spacing apart, some past midnight; the bounds are
\* "HH:MM" strings or minutes, in order or wrapping around midnight, and
\* the value may be no list, a list of three, or hold None.
BetweenValues ==
    {List(<<Str("08:00"), Str("09:00")>>),
     List(<<Str("22:00"), Str("02:00")>>),
     List(<<Num(8 * 60), Num(9 * 60)>>),
     List(<<Num(9 * 60), Str("08:00")>>),
     List(<<Str("08:00"), Str("09:00"), Str("22:00")>>),
     List(<<PyNone, Str("09:00")>>),
     Str("08:00"),
     PyNone}

BetweenOperators == {"between", "~", "!="}

\* (minutes from BaseTime to the first meal, spacing): 08:00 08:30 09:00
\* 09:30; 22:00 23:30 01:00 02:30; 22:00 00:00 02:00 04:00; 12:00 17:30
\* 23:00 04:30.
BetweenStarts == {<<0, 30>>, <<840, 90>>, <<840, 120>>, <<240, 330>>}

InitBetween ==
    \E value \in BetweenValues :
    \E operator \in BetweenOperators :
    \E starts \in BetweenStarts :
        /\ evaluator = NewEvaluator(1)
        /\ question =
            [BaseQuestion EXCEPT
                !.condition =
                    <<Condition("time_of_day", operator, value, "local_time")>>]
        /\ events_data = EventsDoc("test_subject",
                EventList(Len(TestKinds), TestKinds,
                    [i \in 1..Len(TestKinds) |->
                        Aware(BaseTime + starts[1] + starts[2] * (i - 1))],
                    [i \in 1..Len(TestKinds) |-> NoTime]))
        /\ metrics_data = MetricsDoc("test_subject",
                MetricList(Len(TestKinds),
                           [i \in 1..Len(TestKinds) |-> "good"]))

InitAdd ==
    /\ pc = "ready"
    /\ result = NoResult(FALSE)
    /\ previous = NoResult(FALSE)
    /\ EngineIdle
    /\ SignalsIdle
    /\ \/ InitAddable
       \/ InitZones
       \/ InitTimeOfDay
       \/ InitUnsupported
       \/ InitBetween

NextAdd == Evaluate \/ AddUsableEvent

SpecAdd == InitAdd /\ [][NextAdd]_vars

----------------------------------------------------------------------------
(* The calls of the metrics calculators *)

\* The bound of the series: at most MaxSamples samples.
MaxSamples == 3

\* The event the metrics are computed for, and its start in minutes.
EngineEventStart == 10

EngineEvent == [event_id |-> 1, start_time |-> EngineEventStart]

\* The minutes a sample can be taken at: four before the event start to
\* four after it.
SampleTimes == (EngineEventStart - 4)..(EngineEventStart + 4)

\* What a sample can hold: a glucose value and its quality flags.
SampleChoices ==
    {<<100, {}>>, <<120, {}>>, <<100, {"artifact"}>>}

Sample(timestamp, choice) ==
    [timestamp |-> timestamp, glucose_value |-> choice[1],
     quality_flags |-> choice[2]]

\* A series is ordered by timestamp and has no timestamp twice
\* (CGMImporter rejects duplicates and sorts).
OrderedTimes(times) ==
    \A i \in 1..(Len(times) - 1) : times[i] < times[i + 1]

SeriesTimes ==
    {times \in UNION {[1..k -> SampleTimes] : k \in 0..MaxSamples} :
        OrderedTimes(times)}

SamplingIntervals == {2, 3}

\* The window arguments: windows laid out as the defaults are (a baseline
\* before the event start, a peak window after it, a recovery window that
\* ends with the peak window), and windows of no or negative duration.
EngineWindows ==
    {[baseline_window |-> WindowSpec("event_start", -4, 0),
      peak_window |-> WindowSpec("event_start", 0, 4),
      recovery_window |-> WindowSpec("event_start", 2, 4)],
     [baseline_window |-> WindowSpec("event_start", -1, -1),
      peak_window |-> WindowSpec("event_start", 1, 3),
      recovery_window |-> WindowSpec("event_start", 4, 2)]}

\* The evaluator is not part of these calls.
EvaluatorIdle ==
    /\ evaluator = NewEvaluator(DefaultMinEventsPerGroup)
    /\ question = BaseQuestion
    /\ events_data = EventsDoc("", <<>>)
    /\ metrics_data = MetricsDoc("", <<>>)
    /\ result = NoResult(FALSE)
    /\ previous = NoResult(FALSE)

InitMetrics ==
    /\ pc = "ready"
    /\ EvaluatorIdle
    /\ SignalsIdle
    /\ computed = NoMetric("", FALSE)
    /\ event_metrics = <<>>
    /\ cgm_events = <<>>
    /\ metrics_collection = NoCollection
    /\ cgm_event = EngineEvent
    /\ windows \in EngineWindows
    /\ \E times \in SeriesTimes :
       \E choices \in [1..Len(times) -> SampleChoices] :
       \E sampling_interval \in SamplingIntervals :
            cgm_data =
                [sampling_interval_minutes |-> sampling_interval,
                 samples |-> [i \in 1..Len(times) |->
                                Sample(times[i], choices[i])]]

\* One call of calculate_baseline_glucose.
CalculateBaselineGlucose ==
    /\ pc = "ready"
    /\ computed' = calculate_baseline_glucose(
                        cgm_data, cgm_event, windows.baseline_window)
    /\ pc' = "computed"
    /\ UNCHANGED <<cgm_data, cgm_event, windows>>
    /\ UNCHANGED <<event_metrics, cgm_events, metrics_collection>>
    /\ UNCHANGED evaluator_vars
    /\ UNCHANGED signal_vars

\* One call of calculate_delta_peak.
CalculateDeltaPeak ==
    /\ pc = "ready"
    /\ computed' = calculate_delta_peak(
                        cgm_data, cgm_event,
                        windows.baseline_window, windows.peak_window)
    /\ pc' = "computed"
    /\ UNCHANGED <<cgm_data, cgm_event, windows>>
    /\ UNCHANGED <<event_metrics, cgm_events, metrics_collection>>
    /\ UNCHANGED evaluator_vars
    /\ UNCHANGED signal_vars

\* One call of calculate_iAUC, the peak window being its auc_window.
CalculateIAUC ==
    /\ pc = "ready"
    /\ computed' = calculate_iAUC(
                        cgm_data, cgm_event,
                        windows.baseline_window, windows.peak_window)
    /\ pc' = "computed"
    /\ UNCHANGED <<cgm_data, cgm_event, windows>>
    /\ UNCHANGED <<event_metrics, cgm_events, metrics_collection>>
    /\ UNCHANGED evaluator_vars
    /\ UNCHANGED signal_vars

\* One call of calculate_time_to_peak on the peak window.
CalculateTimeToPeak ==
    /\ pc = "ready"
    /\ computed' = calculate_time_to_peak(
                        cgm_data, cgm_event, windows.peak_window)
    /\ pc' = "computed"
    /\ UNCHANGED <<cgm_data, cgm_event, windows>>
    /\ UNCHANGED <<event_metrics, cgm_events, metrics_collection>>
    /\ UNCHANGED evaluator_vars
    /\ UNCHANGED signal_vars

\* One call of calculate_recovery_slope.
CalculateRecoverySlope ==
    /\ pc = "ready"
    /\ computed' = calculate_recovery_slope(
                        cgm_data, cgm_event,
                        windows.peak_window, windows.recovery_window)
    /\ pc' = "computed"
    /\ UNCHANGED <<cgm_data, cgm_event, windows>>
    /\ UNCHANGED <<event_metrics, cgm_events, metrics_collection>>
    /\ UNCHANGED evaluator_vars
    /\ UNCHANGED signal_vars

\* One call of calculate_all_metrics.
CalculateAllMetrics ==
    /\ pc = "ready"
    /\ event_metrics' = calculate_all_metrics(cgm_data, cgm_event)
    /\ pc' = "all_computed"
    /\ UNCHANGED <<cgm_data, cgm_event, windows, computed>>
    /\ UNCHANGED <<cgm_events, metrics_collection>>
    /\ UNCHANGED evaluator_vars
    /\ UNCHANGED signal_vars

\* The events calculate_event_metrics is called on: the event of the state
\* and a later one, whose start_time is a timestamp or not.
LaterEvents ==
    {[event_id |-> 2, start_time |-> EngineEventStart + 2,
      start_parses |-> parses] : parses \in BOOLEAN}

\* One call of calculate_event_metrics.
CalculateEventMetrics ==
    /\ pc = "ready"
    /\ \E later \in LaterEvents :
            cgm_events' =
                <<[event_id |-> cgm_event.event_id,
                   start_time |-> cgm_event.start_time,
                   start_parses |-> TRUE],
                  later>>
    /\ metrics_collection' = calculate_event_metrics(cgm_data, cgm_events')
    /\ pc' = "collected"
    /\ UNCHANGED <<cgm_data, cgm_event, windows, computed, event_metrics>>
    /\ UNCHANGED evaluator_vars
    /\ UNCHANGED signal_vars

\* A coverage of the engine in whole percent, rounded down: the evaluator's
\* model counts coverage in percent, and n / d < 0.7 exactly when the whole
\* percent is below 70.
WholePercent(ratio) == (100 * ratio.num) \div ratio.den

\* The metric dict of a result as the evaluator reads it: event_id,
\* metric_name, window, coverage_ratio and quality_summary's
\* coverage_percentage; the evaluator has no use for quality_flags.
MetricOfResult(r) ==
    [event_id |-> r.event_id, metric_name |-> r.metric_name,
     window |-> r.window,
     has_coverage_ratio |-> TRUE,
     coverage_ratio |-> WholePercent(r.coverage_ratio),
     has_coverage_percentage |-> TRUE,
     coverage_percentage |-> WholePercent(r.coverage_ratio)]

\* The result of calculate_delta_peak or of calculate_iAUC is handed to the
\* answerability evaluator as the one metric of the one meal: the question
\* asks for the metric, without a window or with the result's own.
EvaluateComputed ==
    /\ pc = "computed"
    /\ ~computed.raised
    /\ computed.metric_name \in {"delta_peak", "iAUC"}
    /\ \E window \in {NoWindow, computed.window} :
            question' = [BaseQuestion EXCEPT
                            !.outcome.metric_name = computed.metric_name,
                            !.outcome.window = window]
    /\ evaluator' = NewEvaluator(1)
    /\ events_data' =
            EventsDoc("test_subject",
                      <<Event(cgm_event.event_id, "meal", Str("food_x"),
                              Aware(cgm_event.start_time), FALSE, NoTime)>>)
    /\ metrics_data' = MetricsDoc("test_subject", <<MetricOfResult(computed)>>)
    /\ result' = evaluate(evaluator', question', events_data', metrics_data')
    /\ pc' = "evaluated"
    /\ UNCHANGED previous
    /\ UNCHANGED engine_vars
    /\ UNCHANGED signal_vars

NextMetrics ==
    \/ CalculateBaselineGlucose
    \/ CalculateDeltaPeak
    \/ CalculateIAUC
    \/ CalculateTimeToPeak
    \/ CalculateRecoverySlope
    \/ EvaluateComputed

\* Series whose samples carry sensor_error, a flag the extractor does not
\* look for, or several flags: one sample before the event start and one
\* after it.
FlagChoices ==
    {{}, {"sensor_error"}, {"calibration"}, {"artifact", "calibration"}}

InitFlagged ==
    /\ pc = "ready"
    /\ EvaluatorIdle
    /\ SignalsIdle
    /\ computed = NoMetric("", FALSE)
    /\ event_metrics = <<>>
    /\ cgm_events = <<>>
    /\ metrics_collection = NoCollection
    /\ cgm_event = EngineEvent
    /\ windows \in EngineWindows
    /\ \E before, after \in FlagChoices :
       \E sampling_interval \in SamplingIntervals :
            cgm_data =
                [sampling_interval_minutes |-> sampling_interval,
                 samples |->
                    <<[timestamp |-> EngineEventStart - 1,
                       glucose_value |-> 100, quality_flags |-> before],
                      [timestamp |-> EngineEventStart + 1,
                       glucose_value |-> 120, quality_flags |-> after]>>]

InitEngine == InitMetrics \/ InitFlagged

SpecMetrics == InitEngine /\ [][NextMetrics]_vars

\* The calls on the default windows: calculate_all_metrics and
\* calculate_event_metrics take no window argument.
InitCollect ==
    /\ pc = "ready"
    /\ EvaluatorIdle
    /\ SignalsIdle
    /\ computed = NoMetric("", FALSE)
    /\ event_metrics = <<>>
    /\ cgm_events = <<>>
    /\ metrics_collection = NoCollection
    /\ cgm_event = EngineEvent
    /\ windows = DefaultWindows
    /\ \E times \in SeriesTimes :
       \E choices \in [1..Len(times) -> SampleChoices] :
       \E sampling_interval \in SamplingIntervals :
            cgm_data =
                [sampling_interval_minutes |-> sampling_interval,
                 samples |-> [i \in 1..Len(times) |->
                                Sample(times[i], choices[i])]]

NextCollect == CalculateAllMetrics \/ CalculateEventMetrics

SpecCollect == InitCollect /\ [][NextCollect]_vars

----------------------------------------------------------------------------
(* The call of the event signal evaluator *)

\* coverage_soft = 0.85, in percent.
DefaultCoverageSoft == 85

\* The history_size and min_history the evaluator is built with, small
\* enough for the personal thresholds to act on MaxEvents events.
SignalHistorySize == 2
SignalMinHistory == 1

NewSignalEvaluator ==
    [coverage_soft |-> DefaultCoverageSoft,
     history_size |-> SignalHistorySize,
     min_history |-> SignalMinHistory]

\* The values of the four required metrics of an event, by case: calm, mild
\* and steep responses; the gray cases carry the steep values.
SignalValue(case, metric_name) ==
    CASE case = "calm" ->
            IF metric_name = "nadir_glucose" THEN 80 ELSE 10
      [] case = "mild" ->
            IF metric_name = "nadir_glucose" THEN 78 ELSE 26
      [] OTHER ->
            IF metric_name = "nadir_glucose" THEN 75 ELSE 30

\* The metrics an event comes with: the four required ones with coverage
\* 0.9, but recovery_slope is absent ("missing"), iAUC has coverage 0.5
\* ("low_coverage") or no metric has a coverage_ratio ("no_coverage");
\* delta_peak carries peak_glucose but in the steep response, above the
\* hard threshold in the calm one.
SignalCases ==
    {"calm", "mild", "steep", "missing", "low_coverage", "no_coverage"}

SignalMetricsCase(event_id, case) ==
    LET Named(metric_name) ==
            SignalMetric(
                event_id, metric_name, SignalValue(case, metric_name),
                IF case = "no_coverage" THEN NoCoverage
                ELSE [known |-> TRUE,
                      ratio |-> IF case = "low_coverage"
                                   /\ metric_name = "iAUC"
                                THEN 50 ELSE 90],
                IF metric_name # "delta_peak" \/ case = "steep"
                THEN [known |-> FALSE, glucose |-> 0]
                ELSE [known |-> TRUE,
                      glucose |-> IF case = "calm" THEN 150 ELSE 120])
    IN [i \in 1..(IF case = "missing" THEN 3 ELSE 4) |->
            Named(RequiredMetrics[i])]

\* The minute at which event i of n starts: the events of the document
\* are in the order of their starts, in the reverse order, all start
\* together, or every second one starts a minute before the others.
SignalOrders == {"document", "reversed", "together", "alternate"}

SignalStart(order, n, i) ==
    CASE order = "document" -> i
      [] order = "reversed" -> n - i
      [] order = "together" -> 0
      [] OTHER -> i % 2

InitSignals ==
    /\ pc = "ready"
    /\ EvaluatorIdle
    /\ EngineIdle
    /\ signal_evaluator = NewSignalEvaluator
    /\ \E n \in 0..MaxEvents :
       \E order \in SignalOrders :
       \E cases \in [1..n -> SignalCases] :
            /\ signal_events =
                [i \in 1..n |->
                    [event_id |-> i, start_time |-> SignalStart(order, n, i)]]
            /\ signal_metrics =
                Flatten([i \in 1..n |-> SignalMetricsCase(i, cases[i])])
    /\ events_sorted = <<>>
    /\ history = EmptyHistory
    /\ signals = <<>>

\* evaluate up to its loop: the events are sorted, the history is empty.
SortEvents ==
    /\ pc = "ready"
    /\ events_sorted' = SortedByStart(signal_events)
    /\ history' = EmptyHistory
    /\ signals' = <<>>
    /\ pc' = "looping"
    /\ UNCHANGED <<signal_evaluator, signal_events, signal_metrics>>
    /\ UNCHANGED <<evaluator_vars, engine_vars>>

\* One turn of the loop over events_sorted: the signal of the event is
\* appended; unless the event is gray (continue), _update_history follows.
ProcessEvent ==
    /\ pc = "looping"
    /\ Len(signals) < Len(events_sorted)
    /\ LET event_id == events_sorted[Len(signals) + 1].event_id
           signal == Signal(signal_evaluator, signal_metrics, event_id,
                            history)
       IN /\ signals' = Append(signals, signal)
          /\ history' =
                IF signal.status = "gray" THEN history
                ELSE _update_history(signal_evaluator, history,
                                     signal_metrics, event_id,
                                     signal.coverage_ratio)
    /\ UNCHANGED <<signal_evaluator, signal_events, signal_metrics,
                   events_sorted, pc>>
    /\ UNCHANGED <<evaluator_vars, engine_vars>>

\* The loop is over: evaluate returns the signals.
ReturnSignals ==
    /\ pc = "looping"
    /\ Len(signals) = Len(events_sorted)
    /\ pc' = "returned"
    /\ UNCHANGED signal_vars
    /\ UNCHANGED <<evaluator_vars, engine_vars>>

NextSignals == SortEvents \/ ProcessEvent \/ ReturnSignals

SpecSignals == InitSignals /\ [][NextSignals]_vars

----------------------------------------------------------------------------
(* What the claims speak of *)

Groups == {"exposure", "comparison"}

Stats(g) ==
    IF g = "exposure" THEN result.match_stats.exposure
    ELSE result.match_stats.comparison

Reasons == Range(result.reasons)

ReasonsCoded(code) == {r \in Reasons : r.code = code}

MinEvents == evaluator.min_events_per_group

\* The codes of the reasons that name the events of one category list.
ListCodes ==
    {"confounded_context", "metric_window_mismatch", "missing_metric",
     "missing_baseline", "low_metric_coverage"}

\* The events evaluate works on, and those with a given id.
InSpanEvents == Range(EventsInSpan(question, events_data.events))

\* The metrics of an event that carry the outcome's name, in document order.
OutcomeMetrics(id) ==
    SelectSeq(metrics_data.metrics,
              LAMBDA m : m.event_id = id
                         /\ m.metric_name = question.outcome.metric_name)

\* Those among them whose window is equal to the question's window.
EqualWindowMetrics(id) ==
    SelectSeq(OutcomeMetrics(id),
              LAMBDA m : m.window = question.outcome.window)

----------------------------------------------------------------------------
(* C1 *)

\* C1: for every result evaluate returns, answerable is True if and only if
\* no entry of result.reasons has blocking = True.
ThmC1 ==
    Returned => (result.answerable <=> \A r \in Reasons : ~r.blocking)

\* A result that is answerable although it carries (non-blocking) reasons.
WitC1 == Returned /\ result.answerable /\ result.reasons # <<>>

(* C2 *)

\* C2: evaluate never raises: whatever the question, events and metrics
\* documents, the call returns a result.
CexC2 == pc = "done" => ~result.raised

(* C3 *)

\* Every matched event of the group has a metric named after the outcome
\* whose window equals the question's window, with enough coverage.
AllWellMeasured(g) ==
    \A id \in Range(Stats(g).matched_event_ids) :
        \E i \in 1..Len(EqualWindowMetrics(id)) :
            /\ EqualWindowMetrics(id)[i].has_coverage_ratio
            /\ EqualWindowMetrics(id)[i].coverage_ratio
                    >= evaluator.min_metric_coverage

\* C3: when the subject ids agree, each group matches at least
\* min_events_per_group in-span events, no event matches both definitions, no
\* in-span event is confounded and every matched event has an outcome metric
\* of the question's window with coverage >= min_metric_coverage, evaluate
\* returns answerable = True and reasons = [].
CexC3 ==
    ( /\ Returned
      /\ events_data.subject_id = question.subject_id
      /\ metrics_data.subject_id = question.subject_id
      /\ \A g \in Groups : Len(Stats(g).matched_event_ids) >= MinEvents
      /\ result.match_stats.overlap_event_ids = <<>>
      /\ result.match_stats.confounded_event_ids = <<>>
      /\ \A g \in Groups : AllWellMeasured(g) )
    => (result.answerable /\ result.reasons = <<>>)

(* C4 *)

\* The group has a blocking reason of this code.
Blocked(g, code) ==
    \E r \in ReasonsCoded(code) : r.group = g /\ r.blocking

\* C4 as claimed: whenever a group has fewer usable events than
\* min_events_per_group, zero matched events included, the result has a
\* blocking reason insufficient_repeats_<group> and answerable is False.
CexC4 ==
    Returned =>
        \A g \in Groups :
            Len(Stats(g).usable_event_ids) < MinEvents
            => (Blocked(g, "insufficient_repeats_" \o g) /\ ~result.answerable)

\* C4 as amended: whenever a group has at least one matched event and fewer
\* usable events than min_events_per_group, the result has a blocking reason
\* insufficient_repeats_<group>; a group with no matched event has the
\* blocking reason no_matching_<group>_events and no insufficient_repeats
\* reason; in both cases answerable is False.
ThmC4 ==
    Returned =>
        \A g \in Groups :
            Len(Stats(g).usable_event_ids) < MinEvents
            => /\ ~result.answerable
               /\ IF Stats(g).matched_event_ids # <<>>
                  THEN Blocked(g, "insufficient_repeats_" \o g)
                  ELSE /\ Blocked(g, "no_matching_" \o g \o "_events")
                       /\ ReasonsCoded("insufficient_repeats_" \o g) = {}

\* A group with matched events, too few of them usable.
WitC4 ==
    /\ Returned
    /\ Len(Stats("exposure").matched_event_ids) >= MinEvents
    /\ Len(Stats("exposure").usable_event_ids) < MinEvents

(* C5 *)

\* The class the claim gives a matched event: confounded; else no metric of
\* the outcome's name; else none of them with a window equal to the
\* question's; else the coverage of the first of those below
\* min_metric_coverage; else usable.
ClaimedClass(id) ==
    CASE id \in Range(result.match_stats.confounded_event_ids) -> "confounded"
      [] OutcomeMetrics(id) = <<>> -> "missing_metric"
      [] EqualWindowMetrics(id) = <<>> -> "window_mismatch"
      [] _metric_coverage(EqualWindowMetrics(id)[1])
            < evaluator.min_metric_coverage -> "low_quality_metric"
      [] OTHER -> "usable"

\* The category lists of a group that hold the id.
ListsHolding(g, id) ==
    {c \in {"confounded", "missing_metric", "window_mismatch",
            "low_quality_metric", "usable"} :
        id \in Range(CASE c = "confounded" -> Stats(g).confounded_event_ids
                       [] c = "missing_metric" ->
                            Stats(g).missing_metric_event_ids
                       [] c = "window_mismatch" ->
                            Stats(g).window_mismatch_event_ids
                       [] c = "low_quality_metric" ->
                            Stats(g).low_quality_metric_event_ids
                       [] c = "usable" -> Stats(g).usable_event_ids)}

\* C5: for a question that declares an outcome window, every matched event
\* is in exactly one category list of its group, the one the precedence
\* confounded, missing metric, window mismatch, low coverage, usable gives.
CexC5 ==
    (Returned /\ question.outcome.window.kind # "none") =>
        \A g \in Groups : \A id \in Range(Stats(g).matched_event_ids) :
            ListsHolding(g, id) = {ClaimedClass(id)}

(* C6 *)

\* C6: a matched event that is not confounded and has an outcome metric whose
\* window is equal to the question's outcome window, a single WindowSpec or a
\* pair of them, is never classified window_mismatch.
CexC6 ==
    Returned =>
        \A g \in Groups : \A id \in Range(Stats(g).matched_event_ids) :
            ( /\ id \notin Range(result.match_stats.confounded_event_ids)
              /\ EqualWindowMetrics(id) # <<>> )
            => id \notin Range(Stats(g).window_mismatch_event_ids)

(* C7 *)

\* The reasons of the groups that name the events of a category list.
ListReasons == {r \in Reasons : r.code \in ListCodes /\ r.group \in Groups}

\* The reasons that are blocking whatever the events.
FixedReasons ==
    {r \in Reasons : \E g \in Groups :
        r.code \in {"no_matching_" \o g \o "_events",
                    "insufficient_repeats_" \o g}}

\* C7 as claimed: a list reason of a group is blocking only if the group's
\* matched events without the reason's affected_event_ids number fewer than
\* min_events_per_group.
CexC7 ==
    Returned =>
        /\ \A r \in FixedReasons : r.blocking
        /\ \A r \in ListReasons :
              r.blocking =>
                Len(Stats(r.group).matched_event_ids)
                    - Len(r.affected_event_ids) < MinEvents

\* C7 as amended: no_matching and insufficient_repeats reasons are always
\* blocking; a list reason of a group is blocking if and only if the group's
\* usable events number fewer than min_events_per_group, that is, if and only
\* if the group's insufficient_repeats reason is present.
ThmC7 ==
    Returned =>
        /\ \A r \in FixedReasons : r.blocking
        /\ \A r \in ListReasons :
              /\ r.blocking <=> Len(Stats(r.group).usable_event_ids) < MinEvents
              /\ r.blocking <=>
                    ReasonsCoded("insufficient_repeats_" \o r.group) # {}

\* A blocking list reason of a group that keeps min_events_per_group matched
\* events without the reason's affected events.
WitC7 ==
    /\ Returned
    /\ \E r \in ListReasons :
          /\ r.blocking
          /\ Len(Stats(r.group).matched_event_ids)
                - Len(r.affected_event_ids) >= MinEvents

(* C8 *)

\* The ids both groups matched.
MatchedByBoth ==
    Range(Stats("exposure").matched_event_ids)
        \cap Range(Stats("comparison").matched_event_ids)

Ascending(seq) == \A i, j \in 1..Len(seq) : i < j => seq[i] < seq[j]

\* C8: the result has a reason ambiguous_event_definition if and only if some
\* event id is matched by both groups; the reason is blocking, answerable is
\* then False, and its affected_event_ids are match_stats.overlap_event_ids,
\* the ids matched by both groups in ascending order.
ThmC8 ==
    Returned =>
        /\ ReasonsCoded("ambiguous_event_definition") # {} <=> MatchedByBoth # {}
        /\ \A r \in ReasonsCoded("ambiguous_event_definition") :
              /\ r.blocking
              /\ ~result.answerable
              /\ r.affected_event_ids = result.match_stats.overlap_event_ids
        /\ Range(result.match_stats.overlap_event_ids) = MatchedByBoth
        /\ Ascending(result.match_stats.overlap_event_ids)

\* Two events matched by both groups, and one matched by one group only.
WitC8 ==
    /\ Returned
    /\ Cardinality(MatchedByBoth) = 2
    /\ Len(Stats("exposure").matched_event_ids)
            # Len(Stats("comparison").matched_event_ids)

(* C9 *)

\* B's presence makes A confounded: B passes the test of the confound
\* detector on A's window.
Confounds(B, A) ==
    Intersects(evaluator, A, B, evaluator.min_isolation_minutes)

ConfoundedIds == Range(result.match_stats.confounded_event_ids)

\* C9: for any two distinct in-span events A and B, with or without end_time,
\* if B's presence makes A confounded then A's presence makes B confounded,
\* and both ids are in confounded_event_ids.
ThmC9 ==
    Returned =>
        \A A, B \in InSpanEvents :
            (A.event_id # B.event_id /\ Confounds(B, A))
            => /\ Confounds(A, B)
               /\ A.event_id \in ConfoundedIds
               /\ B.event_id \in ConfoundedIds

\* Two confounded events, one with and one without end_time, beside an event
\* that is not confounded.
WitC9 ==
    /\ Returned
    /\ \E A, B, C \in InSpanEvents :
          /\ A.has_end_time /\ ~B.has_end_time
          /\ Confounds(B, A)
          /\ A.event_id \in ConfoundedIds /\ B.event_id \in ConfoundedIds
          /\ C.event_id \notin ConfoundedIds

(* C10 *)

\* The end of an event, a missing end_time being start + 30 minutes.
ClaimedEnd(e) ==
    IF e.has_end_time THEN e.end_time.min
    ELSE e.start_time.min + DefaultEventDurationMinutes

\* C10 as claimed: an event E is in confounded_event_ids if and only if some
\* other in-span event F has an expanded window [F.start - isolation,
\* F.end + isolation] that intersects E's expanded window.
CexC10 ==
    Returned =>
        \A E \in InSpanEvents :
            E.event_id \in ConfoundedIds
            <=> \E F \in InSpanEvents :
                    /\ F.event_id # E.event_id
                    /\ F.start_time.min - evaluator.min_isolation_minutes
                            <= ClaimedEnd(E) + evaluator.min_isolation_minutes
                    /\ E.start_time.min - evaluator.min_isolation_minutes
                            <= ClaimedEnd(F) + evaluator.min_isolation_minutes

\* C10 as amended: an event E is in confounded_event_ids if and only if some
\* other in-span event F, of any event_type and in a group or not, has an
\* interval [F.start, F.end], not expanded, that intersects E's expanded
\* window [E.start - isolation, E.end + isolation], where a missing end
\* defaults to start + 30 minutes.
ThmC10 ==
    Returned =>
        \A E \in InSpanEvents :
            E.event_id \in ConfoundedIds
            <=> \E F \in InSpanEvents :
                    /\ F.event_id # E.event_id
                    /\ F.start_time.min
                            <= ClaimedEnd(E) + evaluator.min_isolation_minutes
                    /\ E.start_time.min - evaluator.min_isolation_minutes
                            <= ClaimedEnd(F)

\* A meal confounded by a note alone, and a meal whose expanded window meets
\* another's although it is not confounded.
WitC10 ==
    /\ Returned
    /\ \E E, F, G \in InSpanEvents :
          /\ E.event_type = "meal" /\ F.event_type = "note"
          /\ G.event_type = "meal"
          /\ E.event_id \in ConfoundedIds
          /\ G.event_id \notin ConfoundedIds
          /\ ~Confounds(G, E)
          /\ G.start_time.min - E.start_time.min = 80

(* C11 *)

\* The id of the event AddUsableEvent added.
AddedId == Len(events_data.events)

OtherGroup(g) == IF g = "exposure" THEN "comparison" ELSE "exposure"

AddedUsableTo(g) ==
    /\ GroupStats(previous, g).matched_event_ids # <<>>
    /\ Len(GroupStats(previous, g).usable_event_ids) < MinEvents
    /\ AddedId \in Range(GroupStats(result, g).usable_event_ids)
    /\ AddedId \notin Range(GroupStats(result, OtherGroup(g)).matched_event_ids)

SubjectsDiffer ==
    \E d \in {events_data, metrics_data} :
        d.subject_id # "" /\ question.subject_id # ""
        /\ d.subject_id # question.subject_id

\* The time_zone of a document differs from the question's.
ZonesDiffer ==
    \E d \in {[time_zone |-> events_data.time_zone],
              [time_zone |-> metrics_data.time_zone]} :
        d.time_zone # question.time_zone

\* The codes of the reasons evaluate gives for something else than a
\* time_zone mismatch.
OtherCodes ==
    {"subject_id_mismatch", "ambiguous_event_definition"}
    \cup ListCodes
    \cup {"no_matching_" \o g \o "_events" : g \in Groups}
    \cup {"insufficient_repeats_" \o g : g \in Groups}

\* C12: when the subject_id or the time_zone of the question differs from
\* that of the events or of the metrics document, evaluate returns a result
\* with a blocking reason for the mismatch, so answerable is False, and the
\* match_stats are computed as usual.
CexC12 ==
    (pc = "done" /\ (SubjectsDiffer \/ ZonesDiffer)) =>
        /\ ~result.raised
        /\ ~result.answerable
        /\ SubjectsDiffer =>
                \E r \in ReasonsCoded("subject_id_mismatch") : r.blocking
        /\ ZonesDiffer =>
                \E r \in Reasons : r.blocking /\ r.code \notin OtherCodes
        /\ Len(Stats("exposure").matched_event_ids)
            + Len(Stats("comparison").matched_event_ids)
                >= Cardinality(InSpanEvents)

(* C13 *)

\* C13: for a question whose outcome metric_name is delta_peak, evaluate
\* returns answerable = False with a reason of code unsupported_metric,
\* whatever the documents hold.
CexC13 ==
    (pc = "done" /\ question.outcome.metric_name = "delta_peak") =>
        /\ ~result.raised
        /\ ~result.answerable
        /\ "unsupported_metric" \in Codes(result)

(* C14 *)

\* The documents of test_time_of_day_in_condition: food_x meals starting
\* 08:00 and 09:00, food_y meals starting 10:00 and 11:00, without end_time,
\* each with an iAUC metric of the question's window and coverage 0.9; the
\* question has the time_of_day condition; min_events_per_group is 2 and the
\* isolation 30 minutes.
TimeOfDayTest ==
    /\ evaluator = NewEvaluator(2)
    /\ question = [BaseQuestion EXCEPT !.condition = <<TimeOfDayCondition>>]
    /\ events_data = EventsDoc("test_subject",
            EventList(4, TestKinds, [i \in 1..4 |-> Aware(BaseTime + 60 * (i - 1))],
                      [i \in 1..4 |-> NoTime]))
    /\ metrics_data = MetricsDoc("test_subject",
            MetricList(4, [i \in 1..4 |-> "good"]))

\* C14: on the documents of test_time_of_day_in_condition evaluate returns
\* answerable = True, each group having at least two usable events.
CexC14 ==
    (pc = "done" /\ TimeOfDayTest) =>
        /\ ~result.raised
        /\ result.answerable
        /\ \A g \in Groups : Len(Stats(g).usable_event_ids) >= 2

----------------------------------------------------------------------------
(* What the claims on the metrics engine speak of *)

Computed == pc = "computed" /\ ~computed.raised

ComputedMetric(metric_name) ==
    Computed /\ computed.metric_name = metric_name

\* The window arguments of the calls.
WindowArguments ==
    {windows.baseline_window, windows.peak_window, windows.recovery_window}

\* What the window extractor returns for a window argument.
Extracted(window) ==
    _extract_window_samples(cgm_data, cgm_event.start_time, window)

ExpectedSamples(window) ==
    _calculate_expected_samples(window, cgm_data.sampling_interval_minutes)

\* 0 <= f <= 1
InUnitInterval(f) ==
    FracLessEq(FracOfInt(0), f) /\ FracLessEq(f, FracOfInt(1))

----------------------------------------------------------------------------
(* C15 *)

\* C15: the coverage_ratio the window extractor returns is in [0, 1] for
\* every window argument, and so is the coverage_ratio of every metric
\* result; that of recovery_slope is the mean of the coverage of its peak
\* window and of its recovery window.
ThmC15 ==
    pc = "computed" =>
        /\ \A window \in WindowArguments :
                InUnitInterval(Extracted(window).coverage_ratio)
        /\ Computed => InUnitInterval(computed.coverage_ratio)
        /\ ComputedMetric("recovery_slope") =>
                FracEq(FracScale(computed.coverage_ratio, 2),
                       FracAdd(Extracted(windows.peak_window).coverage_ratio,
                               Extracted(windows.recovery_window)
                                   .coverage_ratio))

\* A recovery slope whose recovery window holds more samples than expected.
WitC15 ==
    /\ ComputedMetric("recovery_slope")
    /\ ExpectedSamples(windows.recovery_window) > 0
    /\ Len(Extracted(windows.recovery_window).samples)
            > ExpectedSamples(windows.recovery_window)

----------------------------------------------------------------------------
(* C16 *)

\* The samples inside the window are one sampling interval apart, and the
\* first and the last of them are less than one interval from the bounds of
\* the window: the series has no gap within the window.
Gapless(window) ==
    LET samples == Extracted(window).samples
        interval == cgm_data.sampling_interval_minutes
        window_start == cgm_event.start_time + window.start_offset_minutes
        window_end == cgm_event.start_time + window.end_offset_minutes
    IN /\ Len(samples) > 0
       /\ \A i \in 1..(Len(samples) - 1) :
            samples[i + 1].timestamp - samples[i].timestamp = interval
       /\ samples[1].timestamp - window_start < interval
       /\ window_end - samples[Len(samples)].timestamp < interval

\* C16: a window whose samples are one sampling interval apart without a
\* gap, whatever their phase, has coverage_ratio 1.0 and neither
\* missing_data nor low_coverage among its flags.
CexC16 ==
    pc = "computed" =>
        \A window \in WindowArguments :
            Gapless(window) =>
                /\ FracEq(Extracted(window).coverage_ratio, FracOfInt(1))
                /\ Extracted(window).quality_flags
                        \cap {"missing_data", "low_coverage"} = {}

----------------------------------------------------------------------------
(* C17 *)

\* The glucose values of the samples inside the peak window.
PeakWindowValues ==
    Range(GlucoseValues(Extracted(windows.peak_window).samples))

\* C17: the value of a delta_peak result is quality_summary.peak_glucose
\* minus quality_summary.baseline_glucose, peak_glucose is the greatest
\* glucose value inside the peak window and baseline_glucose is the value
\* calculate_baseline_glucose returns for the baseline window.
ThmC17 ==
    ComputedMetric("delta_peak") =>
        LET summary == computed.quality_summary
            baseline_result ==
                calculate_baseline_glucose(
                    cgm_data, cgm_event, windows.baseline_window)
        IN /\ summary.has_peak /\ summary.has_baseline
           /\ FracEq(computed.value,
                     FracSub(FracOfInt(summary.peak_glucose),
                             summary.baseline_glucose))
           /\ summary.peak_glucose \in PeakWindowValues
           /\ \A v \in PeakWindowValues : v <= summary.peak_glucose
           /\ ~baseline_result.raised
           /\ FracEq(summary.baseline_glucose, baseline_result.value)

\* A delta_peak over a peak window with two glucose values, neither the
\* first nor the only one being the peak, and a baseline that differs from
\* the peak.
WitC17 ==
    /\ ComputedMetric("delta_peak")
    /\ Cardinality(PeakWindowValues) > 1
    /\ Extracted(windows.peak_window).samples[1].glucose_value
            < computed.quality_summary.peak_glucose
    /\ computed.value.num # 0

----------------------------------------------------------------------------
(* C18 *)

\* The timestamps of the samples inside the peak window that attain the
\* greatest glucose value of the window, and the earliest of them.
MaximalTimes ==
    LET samples == Extracted(windows.peak_window).samples
    IN {samples[i].timestamp : i \in
            {k \in 1..Len(samples) :
                \A j \in 1..Len(samples) :
                    samples[j].glucose_value <= samples[k].glucose_value}}

EarliestMaximalTime ==
    CHOOSE t \in MaximalTimes : \A u \in MaximalTimes : t <= u

\* C18: the value of a time_to_peak result is the number of minutes from
\* the event start to the earliest sample inside the window that attains
\* the greatest glucose value of the window, and the peak_time of a
\* delta_peak result over the same window is the time of that sample.
ThmC18 ==
    /\ ComputedMetric("time_to_peak") =>
        /\ FracEq(computed.value,
                  FracOfInt(EarliestMaximalTime - cgm_event.start_time))
        /\ computed.quality_summary.peak_time = EarliestMaximalTime
    /\ ComputedMetric("delta_peak") =>
        computed.quality_summary.peak_time = EarliestMaximalTime

\* A time to peak over a window where two samples tie for the maximum and
\* a lower sample comes before them.
WitC18 ==
    /\ ComputedMetric("time_to_peak")
    /\ Cardinality(MaximalTimes) > 1
    /\ Extracted(windows.peak_window).samples[1].timestamp
            < EarliestMaximalTime
    /\ computed.value.num > 0

----------------------------------------------------------------------------
(* C19 *)

\* The baseline of the iAUC is the fraction total / count.
BaselineTotal ==
    SumSeq(GlucoseValues(Extracted(windows.baseline_window).samples))

BaselineCount == Len(Extracted(windows.baseline_window).samples)

\* count * max(v - baseline, 0), an integer
ScaledExcess(v) ==
    IF BaselineCount * v > BaselineTotal
    THEN BaselineCount * v - BaselineTotal ELSE 0

\* 2 * count times the sum, over consecutive samples inside the AUC window,
\* of ((max(v_i - b, 0) + max(v_{i+1} - b, 0)) / 2) * (minutes between them).
ScaledArea ==
    LET samples == Extracted(windows.peak_window).samples
    IN SumSeq([i \in 1..(Len(samples) - 1) |->
                (ScaledExcess(samples[i].glucose_value)
                    + ScaledExcess(samples[i + 1].glucose_value))
                * (samples[i + 1].timestamp - samples[i].timestamp)])

----------------------------------------------------------------------------
(* C20 *)

\* The number of samples of the series inside a window, bounds included.
HeldIn(window) ==
    Cardinality({i \in 1..Len(cgm_data.samples) :
        /\ cgm_event.start_time + window.start_offset_minutes
                <= cgm_data.samples[i].timestamp
        /\ cgm_data.samples[i].timestamp
                <= cgm_event.start_time + window.end_offset_minutes})

\* The data requirement of each calculator fails.
RequirementFails(metric_name) ==
    CASE metric_name = "baseline_glucose" ->
            HeldIn(windows.baseline_window) = 0
      [] metric_name = "time_to_peak" ->
            HeldIn(windows.peak_window) = 0
      [] metric_name = "delta_peak" ->
            HeldIn(windows.baseline_window) = 0
                \/ HeldIn(windows.peak_window) = 0
      [] metric_name = "iAUC" ->
            HeldIn(windows.baseline_window) = 0
                \/ HeldIn(windows.peak_window) < 2
      [] metric_name = "recovery_slope" ->
            HeldIn(windows.peak_window) = 0
                \/ HeldIn(windows.recovery_window) < 2

\* C20: a calculator raises CGMEventMetricsError exactly when its data
\* requirement fails, and returns a result of its metric otherwise.
ThmC20 ==
    pc = "computed" =>
        /\ computed.raised <=> RequirementFails(computed.metric_name)
        /\ ~computed.raised =>
                /\ computed.event_id = cgm_event.event_id
                /\ computed.window.kind \in {"single", "pair"}

\* An iAUC that raised over an AUC window of one sample, its baseline
\* window holding samples.
WitC20 ==
    /\ pc = "computed"
    /\ computed.raised
    /\ computed.metric_name = "iAUC"
    /\ HeldIn(windows.baseline_window) > 0
    /\ HeldIn(windows.peak_window) = 1

----------------------------------------------------------------------------
(* C21 *)

\* The metric names in the order of calculate_all_metrics.
MetricOrder ==
    <<"baseline_glucose", "delta_peak", "iAUC", "time_to_peak",
      "recovery_slope">>

\* The names of the metrics calculate_all_metrics returned, in its order.
ReturnedNames ==
    [i \in 1..Len(event_metrics) |-> event_metrics[i].metric_name]

OrderOf(metric_name) ==
    CHOOSE i \in 1..Len(MetricOrder) : MetricOrder[i] = metric_name

\* C21: calculate_all_metrics returns, in the order of MetricOrder and
\* each at most once, exactly the metrics whose data requirement holds on
\* the default windows; a metric that fails removes no other one.
ThmC21 ==
    pc = "all_computed" =>
        /\ Range(ReturnedNames) \subseteq Range(MetricOrder)
        /\ \A i, j \in 1..Len(ReturnedNames) :
                i < j => OrderOf(ReturnedNames[i]) < OrderOf(ReturnedNames[j])
        /\ \A metric_name \in Range(MetricOrder) :
                metric_name \in Range(ReturnedNames)
                    <=> ~RequirementFails(metric_name)
        /\ \A i \in 1..Len(event_metrics) :
                /\ ~event_metrics[i].raised
                /\ event_metrics[i].event_id = cgm_event.event_id

\* The baseline window is empty and time_to_peak is returned all the same.
WitC21 ==
    /\ pc = "all_computed"
    /\ HeldIn(windows.baseline_window) = 0
    /\ "time_to_peak" \in Range(ReturnedNames)
    /\ "recovery_slope" \in Range(ReturnedNames)

----------------------------------------------------------------------------
(* C22 *)

\* The metric names the collection lacks for an event.
OmittedMetrics(event_id) ==
    {metric_name \in Range(MetricOrder) :
        \A i \in 1..Len(metrics_collection.metrics) :
            ~ /\ metrics_collection.metrics[i].event_id = event_id
              /\ metrics_collection.metrics[i].metric_name = metric_name}

\* C22: when a metric of an event cannot be computed for want of data, the
\* collection calculate_event_metrics returns lacks the metric and has an
\* entry for the event in its warnings.
CexC22 ==
    pc = "collected" =>
        \A i \in 1..Len(cgm_events) :
            (cgm_events[i].start_parses
                /\ OmittedMetrics(cgm_events[i].event_id) # {})
                    => cgm_events[i].event_id \in metrics_collection.warnings

----------------------------------------------------------------------------
(* C23 *)

\* The reasons _group_reasons gave a group, and the data requirements of
\* the group, in the order of the result.
ReasonsOf(g) == SelectSeq(result.reasons, LAMBDA r : r.group = g)

RequirementsOf(g) == SelectSeq(result.data_requirements, LAMBDA r : r.group = g)

\* The category lists of a group with the code of their reason and the type
\* of their requirement.
Categories(g) ==
    {<<Stats(g).confounded_event_ids,
       "confounded_context", "collect_isolated_events">>,
     <<Stats(g).window_mismatch_event_ids,
       "metric_window_mismatch", "recompute_metrics">>,
     <<Stats(g).missing_metric_event_ids,
       IF question.outcome.metric_name = "baseline_glucose"
       THEN "missing_baseline" ELSE "missing_metric",
       "compute_metrics">>,
     <<Stats(g).low_quality_metric_event_ids,
       "low_metric_coverage", "improve_cgm_coverage">>}

\* A non-empty list has exactly one reason of its code and one requirement
\* of its type, both naming the list; an empty list has neither.
CategoryPaired(g, category) ==
    LET coded == SelectSeq(ReasonsOf(g), LAMBDA r : r.code = category[2])
        typed == SelectSeq(RequirementsOf(g), LAMBDA r : r.type = category[3])
    IN IF category[1] = <<>> THEN coded = <<>> /\ typed = <<>>
       ELSE /\ Len(coded) = 1 /\ coded[1].affected_event_ids = category[1]
            /\ Len(typed) = 1 /\ typed[1].event_ids = category[1]

\* collect_events is required exactly when insufficient_repeats is given.
CollectPaired(g) ==
    LET repeats == SelectSeq(ReasonsOf(g),
                             LAMBDA r : r.code = "insufficient_repeats_" \o g)
        collect == SelectSeq(RequirementsOf(g),
                             LAMBDA r : r.type = "collect_events")
    IN /\ Len(repeats) = Len(collect)
       /\ Len(collect) <= 1
       /\ Len(collect) = 1 =>
            collect[1].needed_count
                = MinEvents - Len(Stats(g).usable_event_ids)

\* C23: for a group with matched events every non-empty category list has
\* exactly one reason and one data requirement naming its event ids, and
\* collect_events is required exactly when insufficient_repeats is given,
\* for the missing number of usable events; a group without matched events
\* has the reason no_matching_<group>_events alone and one collect_events
\* requirement for min_events_per_group events.
ThmC23 ==
    Returned =>
        \A g \in Groups :
            IF Stats(g).matched_event_ids # <<>>
            THEN /\ \A category \in Categories(g) : CategoryPaired(g, category)
                 /\ CollectPaired(g)
                 /\ Len(ReasonsOf(g)) + Len(RequirementsOf(g))
                        = 2 * Cardinality({category \in Categories(g) :
                                                category[1] # <<>>})
                          + 2 * Len(SelectSeq(RequirementsOf(g),
                                    LAMBDA r : r.type = "collect_events"))
            ELSE /\ Len(ReasonsOf(g)) = 1
                 /\ ReasonsOf(g)[1].code = "no_matching_" \o g \o "_events"
                 /\ RequirementsOf(g)
                        = <<Requirement("collect_events", g, MinEvents, <<>>)>>

\* A group with usable events too few, whose events without a metric and
\* events of low coverage both have their reason and requirement.
WitC23 ==
    /\ Returned
    /\ \E g \in Groups :
        /\ Stats(g).missing_metric_event_ids # <<>>
        /\ Stats(g).low_quality_metric_event_ids # <<>>
        /\ Len(Stats(g).usable_event_ids) < MinEvents

----------------------------------------------------------------------------
(* C24 *)

\* The events that take part: all of them when the question has no
\* time_span, else those that start at or after the start of the span and at
\* or before its end.
TakingPart ==
    {e \in Range(events_data.events) :
        \/ ~question.has_time_span
        \/ /\ question.time_span.start_time.min <= e.start_time.min
           /\ e.start_time.min <= question.time_span.end_time.min}

TakingPartIds == {e.event_id : e \in TakingPart}

\* An event's window, its start and end with the isolation added, meets
\* another event.
TooClose(e, other) ==
    /\ other.start_time.min
            <= EventEnd(evaluator, e).min + evaluator.min_isolation_minutes
    /\ EventEnd(evaluator, other).min
            >= e.start_time.min - evaluator.min_isolation_minutes

\* C24: the matched lists and the confounded list hold events that take part
\* only, every event that takes part and matches a group is in the matched
\* list of the group, and an event is confounded exactly when it is too close
\* to another event that takes part.
ThmC24 ==
    Returned =>
        /\ \A g \in Groups :
            Range(Stats(g).matched_event_ids)
                = {e.event_id : e \in
                    {x \in TakingPart :
                        GroupMatch(x, GroupDefinition(question, g),
                                   question.condition).v}}
        /\ Range(result.match_stats.confounded_event_ids)
                = {e.event_id : e \in
                    {x \in TakingPart :
                        \E other \in TakingPart :
                            other.event_id # x.event_id /\ TooClose(x, other)}}

\* An event that starts at the very end of the span is matched, and an
\* event that takes part is not confounded although an event outside the
\* span is too close to it.
WitC24 ==
    /\ Returned
    /\ question.has_time_span
    /\ \/ \E e \in TakingPart :
            /\ e.start_time.min = question.time_span.end_time.min
            /\ \E g \in Groups : e.event_id \in Range(Stats(g).matched_event_ids)
            /\ Range(events_data.events) # TakingPart
       \/ \E e \in TakingPart :
          \E other \in Range(events_data.events) \ TakingPart :
            /\ TooClose(e, other)
            /\ e.event_id \notin Range(result.match_stats.confounded_event_ids)

----------------------------------------------------------------------------
(* C25 *)

\* max(floor((end_offset - start_offset) / sampling_interval) + 1, 0)
FloorExpected(window) ==
    LET floored ==
            ((window.end_offset_minutes - window.start_offset_minutes)
                \div cgm_data.sampling_interval_minutes) + 1
    IN IF floored > 0 THEN floored ELSE 0

\* C25: the expected sample count of every window is the floor of the
\* duration over the sampling interval, plus one, and at least 0, for
\* inverted windows too; a window that expects no sample has coverage_ratio
\* 1.0 and neither low_coverage nor missing_data.
CexC25 ==
    pc = "computed" =>
        \A window \in WindowArguments :
            /\ ExpectedSamples(window) = FloorExpected(window)
            /\ ExpectedSamples(window) = 0 =>
                /\ FracEq(Extracted(window).coverage_ratio, FracOfInt(1))
                /\ Extracted(window).quality_flags
                        \cap {"low_coverage", "missing_data"} = {}

----------------------------------------------------------------------------
(* C26 *)

\* The indices of the samples of the series inside a window, bounds
\* included.
InsideWindow(window) ==
    {i \in 1..Len(cgm_data.samples) :
        /\ cgm_event.start_time + window.start_offset_minutes
                <= cgm_data.samples[i].timestamp
        /\ cgm_data.samples[i].timestamp
                <= cgm_event.start_time + window.end_offset_minutes}

\* C26: the flags of an extracted window are low_coverage exactly when
\* coverage_ratio < 0.7, missing_data exactly when coverage_ratio < 1.0 and
\* interpolated exactly when a sample inside the window carries artifact or
\* sensor_error, and no other flag; the samples extracted are those with
\* window_start <= t <= window_end.
ThmC26 ==
    pc = "computed" =>
        \A window \in WindowArguments :
            LET extracted == Extracted(window)
                ratio == extracted.coverage_ratio
            IN /\ Range(extracted.samples)
                    = {cgm_data.samples[i] : i \in InsideWindow(window)}
               /\ Len(extracted.samples) = Cardinality(InsideWindow(window))
               /\ "low_coverage" \in extracted.quality_flags
                    <=> 10 * ratio.num < 7 * ratio.den
               /\ "missing_data" \in extracted.quality_flags
                    <=> ratio.num < ratio.den
               /\ "low_coverage" \in extracted.quality_flags
                    => "missing_data" \in extracted.quality_flags
               /\ "interpolated" \in extracted.quality_flags
                    <=> \E i \in InsideWindow(window) :
                            \/ "artifact" \in cgm_data.samples[i].quality_flags
                            \/ "sensor_error"
                                    \in cgm_data.samples[i].quality_flags
               /\ extracted.quality_flags
                    \subseteq {"low_coverage", "missing_data", "interpolated"}

\* A window with all three flags, interpolated for a sensor_error, while a
\* sample outside the window carries artifact.
WitC26 ==
    /\ pc = "computed"
    /\ \E window \in WindowArguments :
        /\ Extracted(window).quality_flags
                = {"low_coverage", "missing_data", "interpolated"}
        /\ \A i \in InsideWindow(window) :
                "artifact" \notin cgm_data.samples[i].quality_flags
        /\ \E i \in 1..Len(cgm_data.samples) :
                /\ i \notin InsideWindow(window)
                /\ "artifact" \in cgm_data.samples[i].quality_flags

----------------------------------------------------------------------------
(* C27 *)

KnownOperators == {"=", "<", ">", "<=", ">=", "between", "in", "exists"}

\* The question's one condition is a time_of_day condition.
TimeOfDayQuestion ==
    /\ Len(question.condition) = 1
    /\ question.condition[1].name = "time_of_day"

\* A bound that is an "HH:MM" string or a number.
IsBound(b) ==
    \/ b.t = "num"
    \/ b.t = "str" /\ _time_value_table(b.s) >= 0

\* Such a bound in minutes of the day.
BoundMinutes(b) == IF b.t = "num" THEN b.n ELSE _time_value_table(b.s)

\* The minutes of the day at which an event starts.
StartMinutes(e) == e.start_time.min % (24 * 60)

\* Whether a between over [lo, hi] is to match c.
BetweenMatches(c, lo, hi) ==
    IF lo <= hi THEN lo <= c /\ c <= hi ELSE c >= lo \/ c <= hi

\* The events of a group that evaluate matched.
MatchedIds(g) == Range(Stats(g).matched_event_ids)

\* The events the definition of a group selects, the condition left aside.
DefinedIds(g) ==
    {e \in InSpanEvents :
        _matches_event_definition(
            e, IF g = "exposure" THEN question.exposure
               ELSE question.comparison).v}

\* C27: under a time_of_day condition, between with bounds [lo, hi] matches
\* an event starting at minute c of the day iff lo <= c <= hi when
\* lo <= hi and iff c >= lo or c <= hi when lo > hi; a value that is no
\* two-element list matches no event; an operator outside =, <, >, <=, >=,
\* between, in, exists matches no event and the call raises no error.
ThmC27 ==
    (pc # "ready" /\ TimeOfDayQuestion) =>
        LET condition == question.condition[1]
            value == condition.value
        IN /\ condition.operator \notin KnownOperators =>
                /\ ~result.raised
                /\ \A g \in Groups : MatchedIds(g) = {}
           /\ condition.operator = "between" =>
                /\ ~result.raised
                /\ (value.t # "list" \/ Len(value.l) # 2) =>
                        \A g \in Groups : MatchedIds(g) = {}
                /\ (/\ value.t = "list"
                    /\ Len(value.l) = 2
                    /\ IsBound(value.l[1])
                    /\ IsBound(value.l[2])) =>
                        \A g \in Groups :
                            MatchedIds(g) =
                                {e.event_id : e \in
                                    {d \in DefinedIds(g) :
                                        BetweenMatches(
                                            StartMinutes(d),
                                            BoundMinutes(value.l[1]),
                                            BoundMinutes(value.l[2]))}}

\* A between over 22:00-02:00 has matched the meals at 22:00, at 00:00 and
\* at 02:00, and not the one at 04:00.
WitC27 ==
    /\ pc = "done"
    /\ TimeOfDayQuestion
    /\ question.condition[1].operator = "between"
    /\ question.condition[1].value = List(<<Str("22:00"), Str("02:00")>>)
    /\ MatchedIds("exposure") \cup MatchedIds("comparison") = {1, 2, 3}
    /\ {StartMinutes(e) : e \in InSpanEvents}
            = {22 * 60, 0, 2 * 60, 4 * 60}

----------------------------------------------------------------------------
(* C28 *)

\* The subject_id of a collection, when it has one and the question has
\* one, is the question's.
SubjectAgrees(data) ==
    \/ data.subject_id = ""
    \/ question.subject_id = ""
    \/ data.subject_id = question.subject_id

\* C28: evaluate returns answerable = True if and only if the subject_id of
\* the events and of the metrics collection agree with the question's, no
\* event is matched by both groups, and each group has a matched event and
\* at least min_events_per_group usable events; a confounded_context,
\* metric_window_mismatch, missing_metric, missing_baseline or
\* low_metric_coverage reason of a group is blocking exactly when the
\* group's insufficient_repeats reason is present.
ThmC28 ==
    Returned =>
        /\ result.answerable
            <=> /\ SubjectAgrees(events_data)
                /\ SubjectAgrees(metrics_data)
                /\ MatchedIds("exposure") \cap MatchedIds("comparison") = {}
                /\ \A g \in Groups :
                        /\ Len(Stats(g).matched_event_ids) >= 1
                        /\ Len(Stats(g).usable_event_ids) >= MinEvents
        /\ \A g \in Groups :
           \A r \in Reasons :
                (r.group = g /\ r.code \in ListCodes) =>
                    (r.blocking <=>
                        \E other \in Reasons :
                            other.code = "insufficient_repeats_" \o g)

\* An answerable question, one of whose groups carries a reason that does
\* not block and has no insufficient_repeats reason.
WitC28 ==
    /\ Returned
    /\ result.answerable
    /\ \A g \in Groups : ReasonsCoded("insufficient_repeats_" \o g) = {}
    /\ \E r \in Reasons : r.code \in ListCodes /\ ~r.blocking

----------------------------------------------------------------------------
(* C29 *)

\* A delta_peak or iAUC result is at hand.
PostEventResult ==
    /\ pc \in {"computed", "evaluated"}
    /\ ~computed.raised
    /\ computed.metric_name \in {"delta_peak", "iAUC"}

\* The flags that speak of coverage.
CoverageFlags == {"low_coverage", "missing_data"}

\* C29: the coverage_ratio of a delta_peak or iAUC result is the coverage of
\* its post-event window alone, and its quality_flags are the union of the
\* baseline window's flags and the post-event window's; the answerability
\* evaluator lists the event under low_metric_coverage exactly when that
\* coverage_ratio is below min_metric_coverage, whatever the flags, so not
\* when the coverage_ratio is 1.0.
ThmC29 ==
    PostEventResult =>
        /\ FracEq(computed.coverage_ratio,
                  Extracted(windows.peak_window).coverage_ratio)
        /\ computed.quality_flags
                = Extracted(windows.baseline_window).quality_flags
                    \cup Extracted(windows.peak_window).quality_flags
        /\ pc = "evaluated" =>
                /\ ~result.raised
                /\ question.outcome.window = NoWindow =>
                    (Stats("exposure").low_quality_metric_event_ids # <<>>
                        <=> 100 * computed.coverage_ratio.num
                                < evaluator.min_metric_coverage
                                    * computed.coverage_ratio.den)
                /\ FracEq(computed.coverage_ratio, FracOfInt(1)) =>
                    /\ Stats("exposure").low_quality_metric_event_ids = <<>>
                    /\ ReasonsCoded("low_metric_coverage") = {}

\* A result with low_coverage among its flags and coverage_ratio 1.0, whose
\* event the evaluator counts as usable.
WitC29 ==
    /\ PostEventResult
    /\ pc = "evaluated"
    /\ "low_coverage" \in computed.quality_flags
    /\ FracEq(computed.coverage_ratio, FracOfInt(1))
    /\ Stats("exposure").usable_event_ids = <<cgm_event.event_id>>

----------------------------------------------------------------------------
(* C30 *)

\* The events the loop has been through, in its order.
Processed == SubSeq(events_sorted, 1, Len(signals))

\* An event has the four required metrics and a minimum coverage that is
\* known and at least coverage_soft.
Eligible(event_id) ==
    /\ \A name \in Range(RequiredMetrics) :
            \E i \in 1..Len(signal_metrics) :
                /\ signal_metrics[i].event_id = event_id
                /\ signal_metrics[i].metric_name = name
    /\ \E i \in 1..Len(signal_metrics) :
            /\ signal_metrics[i].event_id = event_id
            /\ signal_metrics[i].has_coverage_ratio
    /\ \A i \in 1..Len(signal_metrics) :
            (signal_metrics[i].event_id = event_id
             /\ signal_metrics[i].has_coverage_ratio)
                => signal_metrics[i].coverage_ratio
                        >= signal_evaluator.coverage_soft

\* The values of a metric of the eligible events among the first k of
\* events_sorted, in that order.
RECURSIVE EligibleValues(_, _)
EligibleValues(k, name) ==
    IF k = 0 THEN <<>>
    ELSE LET event_id == events_sorted[k].event_id
         IN EligibleValues(k - 1, name)
            \o (IF Eligible(event_id)
                THEN <<MetricNamed(signal_metrics, event_id, name).value>>
                ELSE <<>>)

\* The history the eligible events among the first k leave.
EligibleHistory(k) ==
    [name \in Range(RequiredMetrics) |-> EligibleValues(k, name)]

\* C30: in the loop of evaluate and after it, events_sorted holds the events
\* in ascending start_time; the history holds, metric by metric, the values
\* of the processed events that have the four required metrics and a known
\* minimum coverage of at least coverage_soft, and no other value; a
\* processed event is gray exactly when it is no such event; and the signal
\* of every processed event is the one the history of the eligible events
\* strictly before it gives.
ThmC30 ==
    pc \in {"looping", "returned"} =>
        /\ Len(events_sorted) = Len(signal_events)
        /\ Range(events_sorted) = Range(signal_events)
        /\ \A i, j \in 1..Len(events_sorted) :
                i < j => events_sorted[i].start_time
                            <= events_sorted[j].start_time
        /\ \A k \in 1..Len(signals) :
                /\ signals[k].event_id = events_sorted[k].event_id
                /\ signals[k].status = "gray"
                        <=> ~Eligible(events_sorted[k].event_id)
                /\ signals[k] = Signal(signal_evaluator, signal_metrics,
                                       events_sorted[k].event_id,
                                       EligibleHistory(k - 1))
        /\ history = EligibleHistory(Len(signals))

\* After three events, the second one gray with all four metrics: the
\* history holds the values of the first and of the third, and the third got
\* its status, neither gray nor green, from the first alone.
WitC30 ==
    /\ pc = "returned"
    /\ Len(signals) = 3
    /\ signals[1].status = "green"
    /\ signals[2].status = "gray"
    /\ MissingMetrics(signal_metrics, signals[2].event_id) = <<>>
    /\ signals[3].status \in {"red", "yellow"}
    /\ Len(history["delta_peak"]) = 2
    /\ events_sorted # signal_events

=============================================================================
